---- MODULE Spec2Model ----
(***************************************************************************)
(* Incremental chat-analysis pipeline of the INSTINTO academy analyzer:    *)
(* change detection (needs_reanalysis), the Groq scoring call with its     *)
(* retry loop (GroqClient.chat), and the batch run (main) that reads the   *)
(* chat snapshot and the analysis table, caps the candidates, scores them  *)
(* and appends the results to the analysis_raw table.                      *)
(***************************************************************************)
EXTENDS Integers, Sequences, FiniteSets, TLC

(***************************************************************************)
(* Bounds of the model.                                                    *)
(***************************************************************************)
\* number of chats in the chats_raw table of the main specification
NumChats == 2
\* number of changes the ingestion makes to the snapshot
MaxChanges == 1
\* the first MaxShort chats may have a dialog under the minimum length
MaxShort == 1
\* number of batch runs explored
MaxRuns == 2
\* largest number of chats in the cap specification (exceeds the cap)
MaxCapChats == 12
\* number of responses the scoring endpoint is scripted to give to one call
RespLen == 5
\* largest chat id / message count fed to needs_reanalysis on its own
MaxNrCount == 3

\* largest retry-after (seconds) an answer of the endpoint carries
MaxHint == 1

\* largest number of tokens of a response given to the parser on its own
MaxTextLen == 5
\* the scores of one skill of one manager
MaxScores == 2
\* the rows of analysis_raw given to the window filter
MaxRecords == 2
\* the messages of a chat given to format_dialog
MaxMsgs == 2
\* the access requests made at most
MaxRequests == 3

(***************************************************************************)
(* Program constants.                                                      *)
(***************************************************************************)
MAX_CHATS_PER_RUN == 10
LoadLimit == 200
MinMessages == 2
MaxAttempts == 5
LastAttempt == 4
RateLimitBase == 60
ErrorBackoffStep == 10
\* main, lines 380 and 384: the shortest transcript scored, the longest sent
MinDialogLen == 50
MaxDialogLen == 8000
\* format_dialog, line 183: the characters of the two role names
ClientRoleLen == 6
ManagerRoleLen == 8
\* seconds slept after a candidate
InterCallDelay == 60
\* send_reports.py: find_weakest_skills(averages, top_n=3)
ReportTopN == 3
\* send_reports.py: load_analysis_data(ss, days=7)
WindowDays == 7

Min(a, b) == IF a < b THEN a ELSE b
Max(a, b) == IF a > b THEN a ELSE b

\* values of the "status" column and of the "outcome" column of chats_raw
Statuses == {"", "paid"}
Outcomes == {"", "won"}
\* every value chat_status can take (status or outcome)
ChatStatuses == Statuses \cup Outcomes

VARIABLES
    chats,              \* chats_raw joined with messages_raw, in sheet order
    table,              \* data rows of analysis_raw, in sheet order
    pc,                 \* position of main(): "idle", "loop", "done"
    analyzed,           \* analyzed, as loaded by the current run
    chats_to_analyze,   \* the (capped) candidate list of the current run
    total_to_analyze,   \* number of flagged chats before the cap
    idx,                \* 1-based position of the candidate loop
    results,            \* results built by the current run
    errors,             \* error counter of the current run
    requested,          \* chat ids a scoring request was issued for in this run
    notified,           \* the last message handed to telegram.send
    appended,           \* number of rows the last finished run appended
    runs,               \* number of runs started
    prevClean,          \* the last finished run persisted all it flagged and
                        \* the snapshot has not changed since
    changes,            \* number of changes made to the snapshot
    last_out,           \* how the scoring call of the last candidate ended,
                        \* and the seconds slept after it
    env,                \* which credentials the environment of the run holds
    store_ops,          \* the spreadsheet operations the run has attempted
    ending,             \* how main is about to end when it notifies
    delivered,          \* what telegram.send returned
    outcome,            \* how main ended: returned, or the exception raised
    fn_in,              \* input of a function applied on its own
    fn_out,             \* its output
    run2                \* the locals of a second run of main that overlaps

vars == <<chats, table, pc, analyzed, chats_to_analyze, total_to_analyze, idx,
          results, errors, requested, notified, appended, runs, prevClean,
          changes, last_out, env, store_ops, ending, delivered, outcome,
          fn_in, fn_out, run2>>

runVars == <<chats, table, pc, analyzed, chats_to_analyze, total_to_analyze,
             idx, results, errors, requested, notified, appended, runs,
             prevClean, changes, last_out, env, store_ops, ending, delivered,
             outcome, run2>>

NoMessage == [kind |-> "none", scored |-> 0, errors |-> 0, remaining |-> 0]
NoValue == [f |-> "none"]
NoOutcome == [result |-> "none", text |-> "", slept |-> 0]
\* the environment with every credential set
FullEnv == [groq_key |-> TRUE, sheets_id |-> TRUE, sa_json |-> TRUE]
\* no second run
NoRun == [pc |-> "idle", analyzed |-> <<>>, chats_to_analyze |-> <<>>,
          idx |-> 1, results |-> <<>>, errors |-> 0, next_row |-> 0,
          appended |-> 0, notified |-> "none"]

(***************************************************************************)
(* Variants of needs_reanalysis with one rule altered: a chat without an   *)
(* entry compared against default values; >= for >; the non-empty test of  *)
(* the status rule dropped.                                                *)
(***************************************************************************)
needs_reanalysis_defaults(chat_id, current_msg_count, current_status, an) ==
    LET prev_count == IF chat_id \in DOMAIN an
                      THEN an[chat_id].message_count ELSE 0
        prev_status == IF chat_id \in DOMAIN an
                       THEN an[chat_id].chat_status ELSE ""
    IN  IF current_msg_count > prev_count
        THEN <<TRUE, <<"new messages", ToString(prev_count),
                        ToString(current_msg_count)>> >>
        ELSE IF current_status # prev_status /\ current_status # ""
        THEN <<TRUE, <<"status changed", prev_status, current_status>> >>
        ELSE <<FALSE, <<>> >>

needs_reanalysis_geq(chat_id, current_msg_count, current_status, an) ==
    IF chat_id \notin DOMAIN an
    THEN <<TRUE, <<"new">> >>
    ELSE LET prev == an[chat_id]
         IN  IF current_msg_count >= prev.message_count
             THEN <<TRUE, <<"new messages", ToString(prev.message_count),
                             ToString(current_msg_count)>> >>
             ELSE IF current_status # prev.chat_status /\ current_status # ""
             THEN <<TRUE, <<"status changed", prev.chat_status,
                             current_status>> >>
             ELSE <<FALSE, <<>> >>

needs_reanalysis_anyStatus(chat_id, current_msg_count, current_status, an) ==
    IF chat_id \notin DOMAIN an
    THEN <<TRUE, <<"new">> >>
    ELSE LET prev == an[chat_id]
         IN  IF current_msg_count > prev.message_count
             THEN <<TRUE, <<"new messages", ToString(prev.message_count),
                             ToString(current_msg_count)>> >>
             ELSE IF current_status # prev.chat_status
             THEN <<TRUE, <<"status changed", prev.chat_status,
                             current_status>> >>
             ELSE <<FALSE, <<>> >>

(***************************************************************************)
(* needs_reanalysis: (need, reason).  analyzed is a function from the chat *)
(* ids that have a row to [message_count, chat_status, row_index].         *)
(***************************************************************************)
needs_reanalysis(chat_id, current_msg_count, current_status, an) ==
    IF chat_id \notin DOMAIN an
    THEN <<TRUE, <<"new">> >>
    ELSE LET prev == an[chat_id]
             prev_count == prev.message_count
             prev_status == prev.chat_status
         IN  IF current_msg_count > prev_count
             THEN <<TRUE, <<"new messages", ToString(prev_count),
                             ToString(current_msg_count)>> >>
             ELSE IF current_status # prev_status /\ current_status # ""
             THEN <<TRUE, <<"status changed", prev_status, current_status>> >>
             ELSE <<FALSE, <<>> >>

(***************************************************************************)
(* load_analyzed_chats: later rows of a chat overwrite earlier ones.       *)
(***************************************************************************)
LastRowOf(t, c) ==
    CHOOSE k \in 1..Len(t) :
        /\ t[k].chat_id = c
        /\ \A j \in (k+1)..Len(t) : t[j].chat_id # c

load_analyzed_chats(t, readOk) ==
    IF readOk
    THEN [c \in {t[k].chat_id : k \in 1..Len(t)} |->
            [message_count |-> t[LastRowOf(t, c)].message_count,
             chat_status   |-> t[LastRowOf(t, c)].chat_status,
             row_index     |-> LastRowOf(t, c) + 1]]
    ELSE <<>>

(***************************************************************************)
(* load_chats_from_sheets: the first `limit` rows of chats_raw that have   *)
(* at least two messages, in sheet order; [] when a read fails.            *)
(***************************************************************************)
RECURSIVE FilterLoaded(_)
FilterLoaded(s) ==
    IF s = <<>> THEN <<>>
    ELSE IF Head(s).msgs < MinMessages
         THEN FilterLoaded(Tail(s))
         ELSE <<Head(s)>> \o FilterLoaded(Tail(s))

load_chats_from_sheets(cs, limit, readOk) ==
    IF readOk
    THEN FilterLoaded(SubSeq(cs, 1, Min(Len(cs), limit)))
    ELSE <<>>

\* main, line 344: chat_status = status or outcome
ChatStatus(chat) == IF chat.status # "" THEN chat.status ELSE chat.outcome

\* the flagged chats collected last one first
RECURSIVE FilterFlagged_reversed(_, _)
FilterFlagged_reversed(loaded, an) ==
    IF loaded = <<>> THEN <<>>
    ELSE LET c == Head(loaded)
             nr == needs_reanalysis(c.id, c.msgs, ChatStatus(c), an)
         IN  IF nr[1]
             THEN FilterFlagged_reversed(Tail(loaded), an)
                    \o <<[chat_id |-> c.id,
                          message_count |-> c.msgs,
                          chat_status |-> ChatStatus(c),
                          reanalysis_reason |-> nr[2],
                          short |-> c.short]>>
             ELSE FilterFlagged_reversed(Tail(loaded), an)

(***************************************************************************)
(* main, lines 339-351: the chats flagged by change detection, in order.   *)
(***************************************************************************)
RECURSIVE FilterFlagged(_, _)
FilterFlagged(loaded, an) ==
    IF loaded = <<>> THEN <<>>
    ELSE LET c == Head(loaded)
             nr == needs_reanalysis(c.id, c.msgs, ChatStatus(c), an)
         IN  IF nr[1]
             THEN <<[chat_id |-> c.id,
                     message_count |-> c.msgs,
                     chat_status |-> ChatStatus(c),
                     reanalysis_reason |-> nr[2],
                     short |-> c.short]>> \o FilterFlagged(Tail(loaded), an)
             ELSE FilterFlagged(Tail(loaded), an)

\* the cap with the slice one too long
CapCandidates_offByOne(flagged) ==
    IF Len(flagged) > MAX_CHATS_PER_RUN
    THEN SubSeq(flagged, 1, MAX_CHATS_PER_RUN + 1)
    ELSE flagged

\* main, lines 363-366: the cap
CapCandidates(flagged) ==
    IF Len(flagged) > MAX_CHATS_PER_RUN
    THEN SubSeq(flagged, 1, MAX_CHATS_PER_RUN)
    ELSE flagged

(***************************************************************************)
(* append_to_worksheet: the rows are written starting at the row after the *)
(* last existing one.                                                      *)
(***************************************************************************)
WriteAt(t, next_row, rows) ==
    [k \in 1..Max(Len(t), next_row - 1 + Len(rows)) |->
        IF k >= next_row /\ k < next_row + Len(rows)
        THEN rows[k - next_row + 1]
        ELSE t[k]]

\* the write done as upsert_worksheet does it: the sheet cleared, the rows
\* written from the first row
append_to_worksheet_cleared(t, rows) ==
    IF rows = <<>> THEN <<>> ELSE WriteAt(<<>>, 1, rows)

\* the new rows put above the existing ones
append_to_worksheet_onTop(t, rows) == rows \o t

\* every row written twice
append_to_worksheet_twice(t, rows) ==
    IF rows = <<>> THEN t ELSE WriteAt(t, Len(t) + 1, rows \o rows)

append_to_worksheet(t, rows) ==
    IF rows = <<>> THEN t ELSE WriteAt(t, Len(t) + 1, rows)

(***************************************************************************)
(* GroqClient.chat.  resps is what the endpoint answers to the successive  *)
(* requests of one call: "429", "fail" (a RequestException: network error  *)
(* or HTTP error status), "bad" (a 200 reply without choices[0].message)   *)
(* or the content of a 200 reply.  The call is returned as what it did:    *)
(* the sleeps in order, the number of requests, and how it ended.          *)
(***************************************************************************)
Texts == {"dict", "empty", "list", "garbage"}
Responses == {"429", "fail", "bad"} \cup Texts

RECURSIVE Pow2(_)
Pow2(n) == IF n = 0 THEN 1 ELSE 2 * Pow2(n - 1)

\* the 429 backoff growing linearly instead of doubling
RateLimitWait_linear(attempt) == RateLimitBase * (attempt + 1)

\* the sleep after a 429 at loop index attempt (line 156)
RateLimitWait(attempt) == RateLimitBase * Pow2(attempt)
\* the backoff after a RequestException not growing with the attempt
ErrorWait_flat(attempt) == ErrorBackoffStep

\* the sleep after a RequestException at loop index attempt (line 167)
ErrorWait(attempt) == ErrorBackoffStep * (attempt + 1)

RECURSIVE ChatFrom(_, _, _, _)
ChatFrom(resps, attempt, sleeps, requests) ==
    IF attempt >= MaxAttempts
    THEN [result |-> "RateLimited", text |-> "", sleeps |-> sleeps,
          requests |-> requests]
    ELSE LET r == resps[attempt + 1] IN
         IF r = "429"
         THEN ChatFrom(resps, attempt + 1,
                       Append(sleeps, RateLimitWait(attempt)), requests + 1)
         ELSE IF r = "fail"
         THEN IF attempt < LastAttempt
              THEN ChatFrom(resps, attempt + 1,
                            Append(sleeps, ErrorWait(attempt)), requests + 1)
              ELSE [result |-> "Unavailable", text |-> "", sleeps |-> sleeps,
                    requests |-> requests + 1]
         ELSE IF r = "bad"
         THEN [result |-> "KeyError", text |-> "", sleeps |-> sleeps,
               requests |-> requests + 1]
         ELSE [result |-> "ok", text |-> r, sleeps |-> sleeps,
               requests |-> requests + 1]

GroqChat(resps) == ChatFrom(resps, 0, <<>>, 0)

\* every sequence of RespLen responses
RECURSIVE SeqsOfLen(_, _)
SeqsOfLen(S, n) ==
    IF n = 0 THEN {<<>>}
    ELSE {Append(s, x) : s \in SeqsOfLen(S, n - 1), x \in S}

RespSeqs == SeqsOfLen(Responses, RespLen)

\* how one call can end, seen from the candidate loop
ChatOutcomes == {[result |-> GroqChat(r).result, text |-> GroqChat(r).text] :
                     r \in RespSeqs}

(***************************************************************************)
(* GroqClient.chat with the headers of the answers.  hdrs[j] is the header *)
(* map of answer j: a function from header names to values, a name outside *)
(* its domain being an absent header.  printed is what the 429 branch      *)
(* prints of them (lines 149-153).                                         *)
(***************************************************************************)
\* resp.headers.get(name, "?")
HeaderGet(h, name) == IF name \in DOMAIN h THEN h[name] ELSE "?"

\* the number of seconds a retry-after value stands for
SecondsOf(v) == CHOOSE s \in 1..MaxHint : ToString(s) = v

\* the 429 branch sleeping for retry-after when the header is there
RateLimitStep_retryAfter(attempt, h) ==
    [printed |-> <<HeaderGet(h, "retry-after"),
                   HeaderGet(h, "x-ratelimit-limit-requests"),
                   HeaderGet(h, "x-ratelimit-remaining-requests"),
                   HeaderGet(h, "x-ratelimit-reset-requests")>>,
     wait |-> IF HeaderGet(h, "retry-after") = "?"
              THEN RateLimitWait(attempt)
              ELSE SecondsOf(HeaderGet(h, "retry-after"))]

\* the 429 branch (lines 147-157): what it prints and how long it sleeps
RateLimitStep(attempt, h) ==
    [printed |-> <<HeaderGet(h, "retry-after"),
                   HeaderGet(h, "x-ratelimit-limit-requests"),
                   HeaderGet(h, "x-ratelimit-remaining-requests"),
                   HeaderGet(h, "x-ratelimit-reset-requests")>>,
     wait |-> RateLimitWait(attempt)]

RECURSIVE ChatHeadersFrom(_, _, _, _, _, _)
ChatHeadersFrom(resps, hdrs, attempt, sleeps, requests, printed) ==
    IF attempt >= MaxAttempts
    THEN [result |-> "RateLimited", text |-> "", sleeps |-> sleeps,
          requests |-> requests, printed |-> printed]
    ELSE LET r == resps[attempt + 1] IN
         IF r = "429"
         THEN LET step == RateLimitStep(attempt, hdrs[attempt + 1]) IN
              ChatHeadersFrom(resps, hdrs, attempt + 1,
                              Append(sleeps, step.wait), requests + 1,
                              Append(printed, step.printed))
         ELSE IF r = "fail"
         THEN IF attempt < LastAttempt
              THEN ChatHeadersFrom(resps, hdrs, attempt + 1,
                                   Append(sleeps, ErrorWait(attempt)),
                                   requests + 1, printed)
              ELSE [result |-> "Unavailable", text |-> "", sleeps |-> sleeps,
                    requests |-> requests + 1, printed |-> printed]
         ELSE IF r = "bad"
         THEN [result |-> "KeyError", text |-> "", sleeps |-> sleeps,
               requests |-> requests + 1, printed |-> printed]
         ELSE [result |-> "ok", text |-> r, sleeps |-> sleeps,
               requests |-> requests + 1, printed |-> printed]

GroqChatHeaders(resps, hdrs) == ChatHeadersFrom(resps, hdrs, 0, <<>>, 0, <<>>)

\* the header maps an answer can carry: none of the rate-limit headers, or
\* all of them with a retry-after of 1..MaxHint seconds
NoHeaders == <<>>
HeaderMaps ==
    {NoHeaders} \cup
    {("retry-after" :> ToString(s)) @@
     ("x-ratelimit-limit-requests" :> "30") @@
     ("x-ratelimit-remaining-requests" :> "0") @@
     ("x-ratelimit-reset-requests" :> ToString(s)) : s \in 1..MaxHint}

\* the outcomes of a request: rate limited, failed, answered
OutcomeKinds == {"429", "fail", "dict"}

(***************************************************************************)
(* parse_llm_response, lines 189-207.  A response is a sequence of tokens: *)
(* "{" and "}", "m" (a member of an object with a scalar value), "7" (a    *)
(* number), "w" (a word of prose), "fence" (the three backquotes of a      *)
(* fence, with a language tag), "\n" and "deep" (a run of opening square   *)
(* brackets longer than the interpreter's recursion limit, as in 5000      *)
(* times "[").  An object is "{", any members                              *)
(* and inner objects (each standing for a member whose value is an         *)
(* object), "}"; white space between tokens is ignored by the decoder.  A  *)
(* decoded value is the kind of the value with its tokens, white space     *)
(* removed.                                                                *)
(***************************************************************************)
Tokens == {"{", "}", "m", "7", "w", "fence", "\n", "deep"}
NoneValue == [kind |-> "None", tokens |-> <<>>]

IsWs(c) == c = "\n"
NoWs(t) == SelectSeq(t, LAMBDA c : ~IsWs(c))

\* str.strip()
RECURSIVE LStrip(_)
LStrip(t) == IF t # <<>> /\ IsWs(Head(t)) THEN LStrip(Tail(t)) ELSE t
RECURSIVE RStrip(_)
RStrip(t) ==
    IF t # <<>> /\ IsWs(t[Len(t)]) THEN RStrip(SubSeq(t, 1, Len(t) - 1)) ELSE t
StrStrip(t) == RStrip(LStrip(t))

\* text.split("\n") and "\n".join(lines)
RECURSIVE SplitLines(_, _)
SplitLines(t, cur) ==
    IF t = <<>> THEN <<cur>>
    ELSE IF Head(t) = "\n" THEN <<cur>> \o SplitLines(Tail(t), <<>>)
    ELSE SplitLines(Tail(t), Append(cur, Head(t)))
RECURSIVE JoinLines(_)
JoinLines(ls) ==
    IF ls = <<>> THEN <<>>
    ELSE IF Len(ls) = 1 THEN ls[1]
    ELSE ls[1] \o <<"\n">> \o JoinLines(Tail(ls))

StartsWithFence(t) == t # <<>> /\ t[1] = "fence"

\* lines 193-196: a text that starts with a fence loses every line whose
\* stripped form starts with a fence
StripFences(text) ==
    IF StartsWithFence(text)
    THEN JoinLines(SelectSeq(SplitLines(text, <<>>),
                             LAMBDA l : ~StartsWithFence(StrStrip(l))))
    ELSE text

\* the depth of open braces after the first k tokens
RECURSIVE Depth(_, _)
Depth(s, k) ==
    IF k = 0 THEN 0
    ELSE Depth(s, k - 1) + (IF s[k] = "{" THEN 1 ELSE IF s[k] = "}" THEN -1 ELSE 0)

IsObject(s) ==
    /\ Len(s) >= 2
    /\ s[1] = "{"
    /\ \A k \in 1..Len(s) : s[k] \in {"{", "}", "m"}
    /\ \A k \in 1..(Len(s) - 1) : Depth(s, k) >= 1
    /\ Depth(s, Len(s)) = 0

\* json.loads: the value, or ok = FALSE with the exception raised.  The
\* decoder descends into an array at the start of the document once per
\* bracket and raises RecursionError, which is no JSONDecodeError; inside an
\* object a bracket where a key or a delimiter is expected is a
\* JSONDecodeError.
json_loads(t) ==
    LET s == NoWs(t) IN
    IF IsObject(s)
    THEN [ok |-> TRUE, raised |-> "none",
          value |-> [kind |-> "object", tokens |-> s]]
    ELSE IF s = <<"7">>
    THEN [ok |-> TRUE, raised |-> "none",
          value |-> [kind |-> "number", tokens |-> s]]
    ELSE IF s # <<>> /\ s[1] = "deep"
    THEN [ok |-> FALSE, raised |-> "RecursionError", value |-> NoneValue]
    ELSE [ok |-> FALSE, raised |-> "JSONDecodeError", value |-> NoneValue]

\* re.search of an opening brace, anything, a closing brace (greedy): from
\* the first "{" to the last "}"
RegexSearch(t) ==
    LET opens == {k \in 1..Len(t) : t[k] = "{"}
        closes == {k \in 1..Len(t) : t[k] = "}"}
    IN  IF opens = {} \/ closes = {}
        THEN [found |-> FALSE, span |-> <<>>]
        ELSE LET i == CHOOSE k \in opens : \A j \in opens : k <= j
                 e == CHOOSE k \in closes : \A j \in closes : k >= j
             IN  IF e > i THEN [found |-> TRUE, span |-> SubSeq(t, i, e)]
                 ELSE [found |-> FALSE, span |-> <<>>]

\* the value returned, or the exception that leaves the function: both
\* except clauses (lines 200 and 205) name json.JSONDecodeError only
parse_llm_response(response) ==
    LET text == StripFences(StrStrip(response))
        direct == json_loads(text)
    IN  IF direct.ok THEN [raised |-> "none", value |-> direct.value]
        ELSE IF direct.raised # "JSONDecodeError"
        THEN [raised |-> direct.raised, value |-> NoneValue]
        ELSE LET match == RegexSearch(text)
                 inner == json_loads(match.span)
             IN  IF ~match.found THEN [raised |-> "none", value |-> NoneValue]
                 ELSE IF inner.ok THEN [raised |-> "none", value |-> inner.value]
                 ELSE IF inner.raised # "JSONDecodeError"
                 THEN [raised |-> inner.raised, value |-> NoneValue]
                 ELSE [raised |-> "none", value |-> NoneValue]

\* every response of at most MaxTextLen tokens
RECURSIVE SeqsUpTo(_, _)
SeqsUpTo(S, n) ==
    IF n = 0 THEN {<<>>} ELSE SeqsUpTo(S, n - 1) \cup SeqsOfLen(S, n)

(***************************************************************************)
(* main, lines 393-422: what the loop does with the response text.  A      *)
(* record is built only from a non-empty JSON object; None, an empty       *)
(* object (falsy) and a non-object (AttributeError) count as an error.     *)
(***************************************************************************)
\* the loop taking any returned text for an analysis
BuildsRecord_anyText(out) == out.result = "ok"

BuildsRecord(out) == out.result = "ok" /\ out.text = "dict"

\* main, line 426: time.sleep(60) follows results.append; the two continue
\* statements (lines 397 and 431) pass it
PauseAfter(out) == IF BuildsRecord(out) THEN InterCallDelay ELSE 0

ResultRow(item, now) ==
    [chat_id |-> item.chat_id,
     message_count |-> item.message_count,
     chat_status |-> item.chat_status,
     analyzed_at |-> now]

(***************************************************************************)
(* The chat snapshot at start: every chat has one or two messages, no      *)
(* status; the analysis table is empty.                                    *)
(***************************************************************************)
InitRunVars ==
    /\ table = <<>>
    /\ pc = "idle"
    /\ analyzed = <<>>
    /\ chats_to_analyze = <<>>
    /\ total_to_analyze = 0
    /\ idx = 1
    /\ results = <<>>
    /\ errors = 0
    /\ requested = {}
    /\ notified = NoMessage
    /\ appended = 0
    /\ runs = 0
    /\ prevClean = FALSE
    /\ changes = 0
    /\ last_out = NoOutcome
    /\ env = FullEnv
    /\ store_ops = {}
    /\ ending = "none"
    /\ delivered = "none"
    /\ outcome = "none"
    /\ run2 = NoRun

Init ==
    /\ \E m \in [1..NumChats -> 1..MinMessages], sh \in SUBSET (1..MaxShort) :
          chats = [k \in 1..NumChats |->
                      [id |-> ToString(k), msgs |-> m[k], status |-> "",
                       outcome |-> "", short |-> (k \in sh)]]
    /\ InitRunVars
    /\ fn_in = NoValue
    /\ fn_out = NoValue

\* datetime.now() in the candidate loop: later runs and later candidates
\* of a run read a later time
Now == runs * (MAX_CHATS_PER_RUN + 1) + idx

(***************************************************************************)
(* main, lines 313-322: the credentials check.  An environment says which  *)
(* of GROQ_API_KEY, GOOGLE_SHEETS_ID and GOOGLE_SERVICE_ACCOUNT_JSON are   *)
(* set; at most one is missing in the environments explored.               *)
(***************************************************************************)
Envs == {e \in [groq_key : BOOLEAN, sheets_id : BOOLEAN, sa_json : BOOLEAN] :
            Cardinality({k \in {"groq_key", "sheets_id", "sa_json"} : ~e[k]}) <= 1}

\* the check not looking at the service-account data
CheckConfig_noServiceAccount(e) ==
    IF ~e.groq_key THEN "ValueError"
    ELSE IF ~e.sheets_id THEN "ValueError"
    ELSE "ok"

CheckConfig(e) ==
    IF ~e.groq_key THEN "ValueError"
    ELSE IF ~e.sheets_id \/ ~e.sa_json THEN "ValueError"
    ELSE "ok"

(***************************************************************************)
(* TelegramNotifier.send, lines 104-116.  A delivery is what happens to    *)
(* the message: "unconfigured" (no token or no chat id), "network" (the    *)
(* post raises), "non200" (a reply with another status) or "ok".  send     *)
(* returns False for the first three and True for the last.                *)
(***************************************************************************)
Deliveries == {"ok", "non200", "network", "unconfigured"}

\* send letting the exception of the post through
TelegramSend_raises(d) ==
    IF d = "unconfigured" THEN "False"
    ELSE IF d = "network" THEN "raise"
    ELSE IF d = "ok" THEN "True" ELSE "False"

TelegramSend(d) ==
    IF d = "unconfigured" THEN "False"
    ELSE IF d = "network" THEN "False"
    ELSE IF d = "ok" THEN "True" ELSE "False"

\* a run that ends without calling telegram.send
Sends_skipped == {"none"}

\* what a call of telegram.send can return
Sends == {TelegramSend(d) : d \in Deliveries}

\* main after a telegram.send: the value returned is dropped, so main ends
\* the way it was about to (an exception out of send would be raised on)
AfterSend(sent, end) == IF sent = "raise" THEN "raised" ELSE end

(***************************************************************************)
(* main, lines 306-366 and 465-470: check the credentials, open the        *)
(* spreadsheet, read the snapshot and the analysis table, flag, notify and *)
(* return when nothing is flagged, else cap.  A missing credential and a   *)
(* failure to open the spreadsheet raise into the handler of lines         *)
(* 465-470, which notifies the error and raises it on.                     *)
(***************************************************************************)
StartRun ==
    /\ pc = "idle"
    /\ runs < MaxRuns
    /\ results' = <<>>
    /\ errors' = 0
    /\ requested' = {}
    /\ idx' = 1
    /\ last_out' = NoOutcome
    /\ runs' = runs + 1
    /\ \E e \in Envs :
        /\ env' = e
        /\ IF CheckConfig(e) # "ok"
           THEN /\ analyzed' = <<>>
                /\ total_to_analyze' = 0
                /\ chats_to_analyze' = <<>>
                /\ store_ops' = {}
                /\ notified' = [NoMessage EXCEPT !.kind = "error"]
                /\ ending' = CheckConfig(e)
                /\ \E sent \in Sends :
                      /\ delivered' = sent
                      /\ outcome' = AfterSend(sent, ending')
                /\ pc' = "done"
                /\ appended' = 0
                /\ prevClean' = prevClean
           ELSE \E openOk \in BOOLEAN :
                IF ~(openOk /\ e.sheets_id /\ e.sa_json)
                THEN /\ analyzed' = <<>>
                     /\ total_to_analyze' = 0
                     /\ chats_to_analyze' = <<>>
                     /\ store_ops' = {"open"}
                     /\ notified' = [NoMessage EXCEPT !.kind = "error"]
                     /\ ending' = "raised"
                     /\ \E sent \in Sends :
                           /\ delivered' = sent
                           /\ outcome' = AfterSend(sent, ending')
                     /\ pc' = "done"
                     /\ appended' = 0
                     /\ prevClean' = prevClean
                ELSE \E chatsOk \in BOOLEAN, readOk \in BOOLEAN :
                     LET loaded == load_chats_from_sheets(chats, LoadLimit,
                                                          chatsOk)
                         an == load_analyzed_chats(table, readOk)
                         flagged == FilterFlagged(loaded, an)
                     IN  /\ analyzed' = an
                         /\ total_to_analyze' = Len(flagged)
                         /\ chats_to_analyze' = CapCandidates(flagged)
                         /\ store_ops' = {"open", "read_chats",
                                          "read_analysis"}
                         /\ IF flagged = <<>>
                            THEN /\ notified' =
                                      [NoMessage EXCEPT !.kind = "nochats"]
                                 /\ ending' = "returned"
                                 /\ \E sent \in Sends :
                                       /\ delivered' = sent
                                       /\ outcome' = AfterSend(sent, ending')
                                 /\ pc' = "done"
                                 /\ appended' = 0
                                 /\ prevClean' = (prevClean \/ chatsOk)
                            ELSE /\ pc' = "loop"
                                 /\ UNCHANGED <<notified, appended, prevClean,
                                                ending, delivered, outcome>>
    /\ UNCHANGED <<chats, table, changes, fn_in, fn_out, run2>>

(***************************************************************************)
(* The candidate loop leaving at the first failed candidate.               *)
(***************************************************************************)
ProcessCandidate_stopsOnError ==
    /\ pc = "loop"
    /\ idx <= Len(chats_to_analyze)
    /\ LET item == chats_to_analyze[idx] IN
        IF item.short
        THEN /\ last_out' = [NoOutcome EXCEPT !.result = "skipped"]
             /\ idx' = idx + 1
             /\ UNCHANGED <<results, errors, requested>>
        ELSE \E out \in ChatOutcomes :
               /\ last_out' = [result |-> out.result, text |-> out.text,
                               slept |-> PauseAfter(out)]
               /\ requested' = requested \cup {item.chat_id}
               /\ IF BuildsRecord(out)
                  THEN /\ results' = Append(results, ResultRow(item, Now))
                       /\ errors' = errors
                       /\ idx' = idx + 1
                  ELSE /\ errors' = errors + 1
                       /\ results' = results
                       /\ idx' = Len(chats_to_analyze) + 1
    /\ UNCHANGED <<chats, table, pc, analyzed, chats_to_analyze,
                   total_to_analyze, notified, appended, runs, prevClean,
                   changes, env, store_ops, ending, delivered, outcome,
                   fn_in, fn_out, run2>>

(***************************************************************************)
(* main, lines 371-431: one iteration of the candidate loop.               *)
(***************************************************************************)
ProcessCandidate ==
    /\ pc = "loop"
    /\ idx <= Len(chats_to_analyze)
    /\ LET item == chats_to_analyze[idx] IN
        IF item.short
        THEN /\ last_out' = [NoOutcome EXCEPT !.result = "skipped"]
             /\ UNCHANGED <<results, errors, requested>>
        ELSE \E out \in ChatOutcomes :
               /\ last_out' = [result |-> out.result, text |-> out.text,
                               slept |-> PauseAfter(out)]
               /\ requested' = requested \cup {item.chat_id}
               /\ IF BuildsRecord(out)
                  THEN /\ results' = Append(results, ResultRow(item, Now))
                       /\ errors' = errors
                  ELSE /\ errors' = errors + 1
                       /\ results' = results
    /\ idx' = idx + 1
    /\ UNCHANGED <<chats, table, pc, analyzed, chats_to_analyze,
                   total_to_analyze, notified, appended, runs, prevClean,
                   changes, env, store_ops, ending, delivered, outcome,
                   fn_in, fn_out, run2>>

(***************************************************************************)
(* main, lines 433-470: append the results and notify.  A write that fails *)
(* raises into the handler of lines 465-470.  The response of the last     *)
(* call is not used after the loop.                                        *)
(***************************************************************************)
FinishRun ==
    /\ pc = "loop"
    /\ idx > Len(chats_to_analyze)
    /\ IF results # <<>>
       THEN \E writeOk \in BOOLEAN :
              /\ store_ops' = store_ops \cup {"write"}
              /\ IF writeOk
                 THEN /\ table' = append_to_worksheet(table, results)
                      /\ notified' = [kind |-> "summary",
                                      scored |-> Len(results),
                                      errors |-> errors,
                                      remaining |-> total_to_analyze
                                                      - Len(chats_to_analyze)]
                      /\ ending' = "returned"
                      /\ appended' = Len(results)
                      /\ prevClean' = (Len(results) = total_to_analyze)
                 ELSE /\ table' = table
                      /\ notified' = [NoMessage EXCEPT !.kind = "error"]
                      /\ ending' = "raised"
                      /\ appended' = 0
                      /\ prevClean' = FALSE
       ELSE /\ table' = table
            /\ notified' = [NoMessage EXCEPT !.kind = "noresults"]
            /\ ending' = "returned"
            /\ appended' = 0
            /\ prevClean' = FALSE
            /\ store_ops' = store_ops
    /\ \E sent \in Sends :
          /\ delivered' = sent
          /\ outcome' = AfterSend(sent, ending')
    /\ pc' = "done"
    /\ last_out' = NoOutcome
    /\ UNCHANGED <<chats, analyzed, chats_to_analyze, total_to_analyze, idx,
                   results, errors, requested, runs, changes, env,
                   fn_in, fn_out, run2>>

(***************************************************************************)
(* main has returned (or raised): its locals are gone.                     *)
(***************************************************************************)
Return ==
    /\ pc = "done"
    /\ pc' = "idle"
    /\ analyzed' = <<>>
    /\ chats_to_analyze' = <<>>
    /\ total_to_analyze' = 0
    /\ idx' = 1
    /\ results' = <<>>
    /\ errors' = 0
    /\ requested' = {}
    /\ notified' = NoMessage
    /\ appended' = 0
    /\ last_out' = NoOutcome
    /\ env' = FullEnv
    /\ store_ops' = {}
    /\ ending' = "none"
    /\ delivered' = "none"
    /\ outcome' = "none"
    /\ UNCHANGED <<chats, table, runs, prevClean, changes, fn_in, fn_out, run2>>

(***************************************************************************)
(* The upstream ingestion between runs: a message arrives, the status or   *)
(* the outcome of a chat changes.                                          *)
(***************************************************************************)
AddMessage ==
    /\ pc = "idle"
    /\ runs < MaxRuns
    /\ changes < MaxChanges
    /\ \E k \in 1..Len(chats) :
        chats' = [chats EXCEPT ![k].msgs = @ + 1]
    /\ prevClean' = FALSE
    /\ changes' = changes + 1
    /\ UNCHANGED <<table, pc, analyzed, chats_to_analyze, total_to_analyze,
                   idx, results, errors, requested, notified, appended, runs,
                   last_out, env, store_ops, ending, delivered, outcome,
                   fn_in, fn_out, run2>>

\* the status column and the outcome column are filled one at a time
SetStatus ==
    /\ pc = "idle"
    /\ runs < MaxRuns
    /\ changes < MaxChanges
    /\ \E k \in 1..Len(chats), s \in Statuses, o \in Outcomes :
        /\ s = "" \/ o = ""
        /\ <<s, o>> # <<chats[k].status, chats[k].outcome>>
        /\ chats' = [chats EXCEPT ![k].status = s, ![k].outcome = o]
    /\ prevClean' = FALSE
    /\ changes' = changes + 1
    /\ UNCHANGED <<table, pc, analyzed, chats_to_analyze, total_to_analyze,
                   idx, results, errors, requested, notified, appended, runs,
                   last_out, env, store_ops, ending, delivered, outcome,
                   fn_in, fn_out, run2>>

Next ==
    \/ StartRun
    \/ ProcessCandidate
    \/ FinishRun
    \/ Return
    \/ AddMessage
    \/ SetStatus

Spec == Init /\ [][Next]_vars

(***************************************************************************)
(* needs_reanalysis applied on its own to every chat id, message count,    *)
(* status and analyzed map within the bounds.                              *)
(***************************************************************************)
NrIds == {ToString(k) : k \in 1..NumChats}
NrCounts == 0..MaxNrCount
NrEntries == [message_count : NrCounts, chat_status : ChatStatuses,
              row_index : {2}]
NrMaps == UNION {[S -> NrEntries] : S \in SUBSET NrIds}

InitNR ==
    /\ chats = <<>>
    /\ InitRunVars
    /\ \E c \in NrIds, n \in NrCounts, st \in ChatStatuses, an \in NrMaps :
          fn_in = [f |-> "needs_reanalysis", chat_id |-> c, count |-> n,
                   status |-> st, analyzed |-> an]
    /\ fn_out = NoValue

ApplyNR ==
    /\ fn_in.f = "needs_reanalysis"
    /\ fn_out.f = "none"
    /\ LET nr == needs_reanalysis(fn_in.chat_id, fn_in.count, fn_in.status,
                                  fn_in.analyzed)
       IN  fn_out' = [f |-> "needs_reanalysis", need |-> nr[1],
                      reason |-> nr[2]]
    /\ UNCHANGED <<runVars, fn_in>>

SpecNR == InitNR /\ [][ApplyNR]_vars

(***************************************************************************)
(* GroqClient.chat applied on its own to every script of responses.        *)
(***************************************************************************)
InitChat ==
    /\ chats = <<>>
    /\ InitRunVars
    /\ \E r \in RespSeqs : fn_in = [f |-> "chat", resps |-> r]
    /\ fn_out = NoValue

ApplyChat ==
    /\ fn_in.f = "chat"
    /\ fn_out.f = "none"
    /\ LET c == GroqChat(fn_in.resps)
       IN  fn_out' = [f |-> "chat", result |-> c.result, text |-> c.text,
                      sleeps |-> c.sleeps, requests |-> c.requests]
    /\ UNCHANGED <<runVars, fn_in>>

SpecChat == InitChat /\ [][ApplyChat]_vars

(***************************************************************************)
(* GroqClient.chat applied on its own to every script of request outcomes  *)
(* and every assignment of header maps to the answers.                     *)
(***************************************************************************)
InitChatHeaders ==
    /\ chats = <<>>
    /\ InitRunVars
    /\ \E r \in SeqsOfLen(OutcomeKinds, RespLen),
          h \in SeqsOfLen(HeaderMaps, RespLen) :
          fn_in = [f |-> "chat_headers", resps |-> r, hdrs |-> h]
    /\ fn_out = NoValue

ApplyChatHeaders ==
    /\ fn_in.f = "chat_headers"
    /\ fn_out.f = "none"
    /\ LET c == GroqChatHeaders(fn_in.resps, fn_in.hdrs)
       IN  fn_out' = [f |-> "chat_headers", result |-> c.result,
                      text |-> c.text, sleeps |-> c.sleeps,
                      requests |-> c.requests, printed |-> c.printed]
    /\ UNCHANGED <<runVars, fn_in>>

SpecChatHeaders == InitChatHeaders /\ [][ApplyChatHeaders]_vars

(***************************************************************************)
(* parse_llm_response applied on its own to every response within the     *)
(* bound, and to the shorter ones between fence lines.                     *)
(***************************************************************************)
\* the shorter responses put between an opening and a closing fence line
FencedTexts ==
    {<<"fence", "\n">> \o t \o <<"\n", "fence">> :
        t \in SeqsUpTo(Tokens, MaxTextLen - 2)}

InitParse ==
    /\ chats = <<>>
    /\ InitRunVars
    /\ \E t \in SeqsUpTo(Tokens, MaxTextLen) \cup FencedTexts :
          fn_in = [f |-> "parse", text |-> t]
    /\ fn_out = NoValue

ApplyParse ==
    /\ fn_in.f = "parse"
    /\ fn_out.f = "none"
    /\ LET r == parse_llm_response(fn_in.text) IN
          fn_out' = [f |-> "parse", value |-> r.value, raised |-> r.raised]
    /\ UNCHANGED <<runVars, fn_in>>

SpecParse == InitParse /\ [][ApplyParse]_vars

(***************************************************************************)
(* One run over a snapshot of up to MaxCapChats new chats, more than the   *)
(* cap allows in one run.                                                  *)
(***************************************************************************)
InitCap ==
    /\ \E n \in 0..MaxCapChats, sh \in SUBSET (1..MaxShort) :
          chats = [k \in 1..n |->
                      [id |-> ToString(k), msgs |-> MinMessages,
                       status |-> "", outcome |-> "", short |-> (k \in sh)]]
    /\ table = <<>>
    /\ pc = "idle"
    /\ analyzed = <<>>
    /\ chats_to_analyze = <<>>
    /\ total_to_analyze = 0
    /\ idx = 1
    /\ results = <<>>
    /\ errors = 0
    /\ requested = {}
    /\ notified = NoMessage
    /\ appended = 0
    /\ runs = MaxRuns - 1
    /\ prevClean = FALSE
    /\ changes = MaxChanges
    /\ last_out = NoOutcome
    /\ env = FullEnv
    /\ store_ops = {}
    /\ ending = "none"
    /\ delivered = "none"
    /\ outcome = "none"
    /\ run2 = NoRun
    /\ fn_in = NoValue
    /\ fn_out = NoValue

NextCap ==
    \/ StartRun
    \/ ProcessCandidate
    \/ FinishRun
    \/ Return

SpecCap == InitCap /\ [][NextCap]_vars

(***************************************************************************)
(* The weakest skills of a manager: shared/report_formatter.py, lines      *)
(* 16-36, and learning_bot.py, lines 156-165.  The skills of a manager are  *)
(* a dict in insertion order, here a sequence of [key, scores]; an average *)
(* is kept in tenths, as round(_, 1) leaves it.                            *)
(***************************************************************************)
SkillKeys == <<"greeting_score", "presentation_score", "closing_score">>
ScoreValues == {0, 2, 4}

RECURSIVE SumSeq(_)
SumSeq(s) == IF s = <<>> THEN 0 ELSE Head(s) + SumSeq(Tail(s))

\* round(total / n, 1) in tenths: to the nearest tenth, a half to the even one
Round1(total, n) ==
    LET q == (10 * total) \div n
        r == (10 * total) % n
    IN  IF 2 * r < n THEN q
        ELSE IF 2 * r > n THEN q + 1
        ELSE IF q % 2 = 0 THEN q ELSE q + 1

\* lines 16-24: the average of every skill, 0.0 for a skill with no score
calculate_skill_averages(skills) ==
    [i \in 1..Len(skills) |->
        [key |-> skills[i].key,
         avg |-> IF skills[i].scores # <<>>
                 THEN Round1(SumSeq(skills[i].scores), Len(skills[i].scores))
                 ELSE 0]]

\* sorted(pairs, key = the average): stable, ascending
RECURSIVE InsertByAvg(_, _)
InsertByAvg(sorted, p) ==
    IF sorted = <<>> THEN <<p>>
    ELSE IF sorted[Len(sorted)].avg <= p.avg THEN Append(sorted, p)
    ELSE Append(InsertByAvg(SubSeq(sorted, 1, Len(sorted) - 1), p),
                sorted[Len(sorted)])
RECURSIVE SortedByAvg(_)
SortedByAvg(pairs) ==
    IF pairs = <<>> THEN <<>>
    ELSE InsertByAvg(SortedByAvg(SubSeq(pairs, 1, Len(pairs) - 1)),
                     pairs[Len(pairs)])

\* lines 27-36: the averages above zero, ascending, the first top_n
find_weakest_skills(averages, top_n) ==
    LET non_zero == SelectSeq(averages, LAMBDA p : p.avg > 0)
        sorted_skills == SortedByAvg(non_zero)
    IN  SubSeq(sorted_skills, 1, Min(top_n, Len(sorted_skills)))

\* learning_bot.py, lines 156-165: the averages of the skills that have
\* scores, then the same filter, sort and cut
find_weakest_skills_bot(skills, top_n) ==
    LET withData == SelectSeq(skills, LAMBDA s : s.scores # <<>>)
        averages == [i \in 1..Len(withData) |->
                        [key |-> withData[i].key,
                         avg |-> Round1(SumSeq(withData[i].scores),
                                        Len(withData[i].scores))]]
        non_zero == SelectSeq(averages, LAMBDA p : p.avg > 0)
        sorted_skills == SortedByAvg(non_zero)
    IN  SubSeq(sorted_skills, 1, Min(top_n, Len(sorted_skills)))

\* every manager's skills within the bound, and every top_n up to one more
\* than the number of skills
InitWeakest ==
    /\ chats = <<>>
    /\ InitRunVars
    /\ \E g, p, c \in SeqsUpTo(ScoreValues, MaxScores) :
       \E n \in 0..(Len(SkillKeys) + 1) :
          fn_in = [f |-> "weakest",
                   skills |-> <<[key |-> SkillKeys[1], scores |-> g],
                                [key |-> SkillKeys[2], scores |-> p],
                                [key |-> SkillKeys[3], scores |-> c]>>,
                   top_n |-> n]
    /\ fn_out = NoValue

ApplyWeakest ==
    /\ fn_in.f = "weakest"
    /\ fn_out.f = "none"
    /\ fn_out' = [f |-> "weakest",
                  value |-> find_weakest_skills(
                                calculate_skill_averages(fn_in.skills),
                                fn_in.top_n),
                  bot |-> find_weakest_skills_bot(fn_in.skills, fn_in.top_n)]
    /\ UNCHANGED <<runVars, fn_in>>

SpecWeakest == InitWeakest /\ [][ApplyWeakest]_vars

(***************************************************************************)
(* main, lines 368-448, with the process killed while it runs: in the      *)
(* candidate loop or before the write of line 448, and the table is as it  *)
(* was; after that write, and the rows of the run are in the table and no  *)
(* notification has been sent.  The locals of the dead run are kept until  *)
(* Return, as for a run that ended by itself.                              *)
(***************************************************************************)
Kill ==
    /\ pc = "loop"
    /\ \E written \in BOOLEAN :
          /\ written => (idx > Len(chats_to_analyze) /\ results # <<>>)
          /\ table' = IF written THEN append_to_worksheet(table, results)
                      ELSE table
          /\ appended' = IF written THEN Len(results) ELSE 0
          /\ store_ops' = IF written THEN store_ops \cup {"write"}
                          ELSE store_ops
    /\ notified' = NoMessage
    /\ ending' = "killed"
    /\ delivered' = "none"
    /\ outcome' = "killed"
    /\ prevClean' = FALSE
    /\ pc' = "done"
    /\ last_out' = NoOutcome
    /\ UNCHANGED <<chats, analyzed, chats_to_analyze, total_to_analyze, idx,
                   results, errors, requested, runs, changes, env,
                   fn_in, fn_out, run2>>

\* every chat has two messages and a transcript long enough to be scored
InitKill ==
    /\ chats = [k \in 1..NumChats |->
                   [id |-> ToString(k), msgs |-> MinMessages, status |-> "",
                    outcome |-> "", short |-> FALSE]]
    /\ InitRunVars
    /\ fn_in = NoValue
    /\ fn_out = NoValue

NextKill ==
    \/ StartRun
    \/ ProcessCandidate
    \/ FinishRun
    \/ Return
    \/ Kill
    \/ AddMessage
    \/ SetStatus

SpecKill == InitKill /\ [][NextKill]_vars

(***************************************************************************)
(* Two runs of main that overlap: the scheduler starts a run while another *)
(* is in progress, and nothing in main takes a lock.  The second run is    *)
(* the same code over its own locals (run2); its credentials are set and   *)
(* the spreadsheet opens.  Its append_to_worksheet is taken in its two     *)
(* calls to the store, get_all_values (sheets.py line 93) and ws.update    *)
(* (line 129), so that the write of the other run can fall between them.   *)
(***************************************************************************)
Now2 == runs * (MAX_CHATS_PER_RUN + 1) + run2.idx

\* main, lines 326-366
StartRun2 ==
    /\ run2.pc = "idle"
    /\ pc = "loop"
    /\ \E chatsOk \in BOOLEAN, readOk \in BOOLEAN :
        LET loaded == load_chats_from_sheets(chats, LoadLimit, chatsOk)
            an == load_analyzed_chats(table, readOk)
            flagged == FilterFlagged(loaded, an)
        IN  run2' = IF flagged = <<>>
                    THEN [NoRun EXCEPT !.pc = "done", !.notified = "nochats"]
                    ELSE [NoRun EXCEPT !.pc = "loop", !.analyzed = an,
                              !.chats_to_analyze = CapCandidates(flagged)]
    /\ UNCHANGED <<chats, table, pc, analyzed, chats_to_analyze,
                   total_to_analyze, idx, results, errors, requested,
                   notified, appended, runs, prevClean, changes, last_out,
                   env, store_ops, ending, delivered, outcome, fn_in, fn_out>>

\* a second run that scores a transcript one message longer than the
\* snapshot the first run read
ProcessCandidate2_otherVersion ==
    /\ run2.pc = "loop"
    /\ run2.idx <= Len(run2.chats_to_analyze)
    /\ LET item == run2.chats_to_analyze[run2.idx]
           newer == [item EXCEPT !.message_count = @ + 1] IN
        IF item.short
        THEN run2' = [run2 EXCEPT !.idx = @ + 1]
        ELSE \E out \in ChatOutcomes :
               run2' = IF BuildsRecord(out)
                       THEN [run2 EXCEPT !.idx = @ + 1,
                                 !.results = Append(@, ResultRow(newer, Now2))]
                       ELSE [run2 EXCEPT !.idx = @ + 1, !.errors = @ + 1]
    /\ UNCHANGED <<chats, table, pc, analyzed, chats_to_analyze,
                   total_to_analyze, idx, results, errors, requested,
                   notified, appended, runs, prevClean, changes, last_out,
                   env, store_ops, ending, delivered, outcome, fn_in, fn_out>>

\* main, lines 371-431
ProcessCandidate2 ==
    /\ run2.pc = "loop"
    /\ run2.idx <= Len(run2.chats_to_analyze)
    /\ LET item == run2.chats_to_analyze[run2.idx] IN
        IF item.short
        THEN run2' = [run2 EXCEPT !.idx = @ + 1]
        ELSE \E out \in ChatOutcomes :
               run2' = IF BuildsRecord(out)
                       THEN [run2 EXCEPT !.idx = @ + 1,
                                 !.results = Append(@, ResultRow(item, Now2))]
                       ELSE [run2 EXCEPT !.idx = @ + 1, !.errors = @ + 1]
    /\ UNCHANGED <<chats, table, pc, analyzed, chats_to_analyze,
                   total_to_analyze, idx, results, errors, requested,
                   notified, appended, runs, prevClean, changes, last_out,
                   env, store_ops, ending, delivered, outcome, fn_in, fn_out>>

\* main, lines 433-448 and 458-463, sheets.py lines 93 and 122: without
\* results the run notifies and ends; with results it reads the sheet and
\* takes the row after the last one
ReadSheet2 ==
    /\ run2.pc = "loop"
    /\ run2.idx > Len(run2.chats_to_analyze)
    /\ run2' = IF run2.results = <<>>
               THEN [run2 EXCEPT !.pc = "done", !.notified = "noresults"]
               ELSE [run2 EXCEPT !.pc = "append", !.next_row = Len(table) + 1]
    /\ UNCHANGED <<chats, table, pc, analyzed, chats_to_analyze,
                   total_to_analyze, idx, results, errors, requested,
                   notified, appended, runs, prevClean, changes, last_out,
                   env, store_ops, ending, delivered, outcome, fn_in, fn_out>>

\* sheets.py line 129 and main, lines 450-470: the rows written from
\* next_row on, then the summary; a failed write ends in the error message
WriteRows2 ==
    /\ run2.pc = "append"
    /\ \E writeOk \in BOOLEAN :
        IF writeOk
        THEN /\ table' = WriteAt(table, run2.next_row, run2.results)
             /\ run2' = [run2 EXCEPT !.pc = "done", !.notified = "summary",
                             !.appended = Len(run2.results)]
        ELSE /\ table' = table
             /\ run2' = [run2 EXCEPT !.pc = "done", !.notified = "error"]
    /\ UNCHANGED <<chats, pc, analyzed, chats_to_analyze,
                   total_to_analyze, idx, results, errors, requested,
                   notified, appended, runs, prevClean, changes, last_out,
                   env, store_ops, ending, delivered, outcome, fn_in, fn_out>>

NextOverlap ==
    \/ StartRun
    \/ ProcessCandidate
    \/ FinishRun
    \/ Return
    \/ StartRun2
    \/ ProcessCandidate2
    \/ ReadSheet2
    \/ WriteRows2

\* the snapshot of InitKill, the analysis table empty, and the run counter
\* at its last run: the first process runs once
InitOverlap ==
    /\ chats = [k \in 1..NumChats |->
                   [id |-> ToString(k), msgs |-> MinMessages, status |-> "",
                    outcome |-> "", short |-> FALSE]]
    /\ table = <<>>
    /\ pc = "idle"
    /\ analyzed = <<>>
    /\ chats_to_analyze = <<>>
    /\ total_to_analyze = 0
    /\ idx = 1
    /\ results = <<>>
    /\ errors = 0
    /\ requested = {}
    /\ notified = NoMessage
    /\ appended = 0
    /\ runs = MaxRuns - 1
    /\ prevClean = FALSE
    /\ changes = 0
    /\ last_out = NoOutcome
    /\ env = FullEnv
    /\ store_ops = {}
    /\ ending = "none"
    /\ delivered = "none"
    /\ outcome = "none"
    /\ run2 = NoRun
    /\ fn_in = NoValue
    /\ fn_out = NoValue

SpecOverlap == InitOverlap /\ [][NextOverlap]_vars

(***************************************************************************)
(* load_analysis_data, send_reports.py lines 35-63 (the same text in       *)
(* send_weekly_report.py, lines 106-134): the rows of the last `days`      *)
(* days.  The analyzed_at of a row is missing (an empty cell), a timestamp *)
(* with a UTC offset, a timestamp without one, a text that is no ISO       *)
(* timestamp, or a number (a cell get_all_records has read as one); a      *)
(* timestamp is kept as its age in days at the time of the call.           *)
(***************************************************************************)
Ages == {0, 6, 7, 8}
Timestamps ==
    {[kind |-> k, age |-> 0] : k \in {"missing", "garbage", "number"}}
        \cup {[kind |-> k, age |-> a] : k \in {"aware", "naive"}, a \in Ages}

\* lines 50-60 for one row: "keep", "drop", or the exception that is not
\* caught.  analyzed_at.replace raises AttributeError for a number;
\* fromisoformat raises ValueError, caught at line 57, for a text that is no
\* timestamp; dt < cutoff raises TypeError for a timestamp without offset,
\* the cutoff having one.
FilterRow(analyzed_at, days) ==
    IF analyzed_at.kind = "missing" THEN "keep"
    ELSE IF analyzed_at.kind = "number" THEN "AttributeError"
    ELSE IF analyzed_at.kind = "garbage" THEN "keep"
    ELSE IF analyzed_at.kind = "naive" THEN "TypeError"
    ELSE IF analyzed_at.age > days THEN "drop"
    ELSE "keep"

\* lines 45-63: the rows kept, or the exception raised by the first row
\* that raises one
RECURSIVE load_analysis_data(_, _, _)
load_analysis_data(data, days, filtered) ==
    IF data = <<>> THEN [raised |-> "none", rows |-> filtered]
    ELSE LET r == FilterRow(Head(data), days) IN
         IF r = "keep"
         THEN load_analysis_data(Tail(data), days, Append(filtered, Head(data)))
         ELSE IF r = "drop"
         THEN load_analysis_data(Tail(data), days, filtered)
         ELSE [raised |-> r, rows |-> <<>>]

InitWindow ==
    /\ chats = <<>>
    /\ InitRunVars
    /\ \E d \in SeqsUpTo(Timestamps, MaxRecords) :
          fn_in = [f |-> "window", data |-> d, days |-> WindowDays]
    /\ fn_out = NoValue

ApplyWindow ==
    /\ fn_in.f = "window"
    /\ fn_out.f = "none"
    /\ LET r == load_analysis_data(fn_in.data, fn_in.days, <<>>) IN
          fn_out' = [f |-> "window", raised |-> r.raised, rows |-> r.rows]
    /\ UNCHANGED <<runVars, fn_in>>

SpecWindow == InitWindow /\ [][ApplyWindow]_vars

(***************************************************************************)
(* The start of one run over a snapshot of up to MaxCapChats chats, some   *)
(* of which have a row in analysis_raw for their present message count.    *)
(***************************************************************************)
InitSelect ==
    /\ \E n \in 0..MaxCapChats :
       \E done \in SUBSET (1..n) :
          /\ chats = [k \in 1..n |->
                         [id |-> ToString(k), msgs |-> MinMessages,
                          status |-> "", outcome |-> "", short |-> FALSE]]
          /\ LET rows == [k \in 1..n |->
                             [chat_id |-> ToString(k),
                              message_count |-> MinMessages,
                              chat_status |-> "", analyzed_at |-> 0]]
             IN  table = SelectSeq(rows,
                                   LAMBDA r : \E k \in done :
                                                  r.chat_id = ToString(k))
    /\ pc = "idle"
    /\ analyzed = <<>>
    /\ chats_to_analyze = <<>>
    /\ total_to_analyze = 0
    /\ idx = 1
    /\ results = <<>>
    /\ errors = 0
    /\ requested = {}
    /\ notified = NoMessage
    /\ appended = 0
    /\ runs = 0
    /\ prevClean = FALSE
    /\ changes = 0
    /\ last_out = NoOutcome
    /\ env = FullEnv
    /\ store_ops = {}
    /\ ending = "none"
    /\ delivered = "none"
    /\ outcome = "none"
    /\ run2 = NoRun
    /\ fn_in = NoValue
    /\ fn_out = NoValue

SpecSelect == InitSelect /\ [][StartRun]_vars

(***************************************************************************)
(* main, lines 393-424: from the parsed response to the row.  A parsed     *)
(* object is the set of its top-level fields; its "scores" field is an     *)
(* object with some of the six score fields, or null.  A field that is     *)
(* there has the value Given of it.  The two list fields go into the row   *)
(* as the JSON text of the list, here the list.                            *)
(***************************************************************************)
ScoreFields == {"greeting", "needs_discovery", "presentation",
                "objection_handling", "closing", "cross_sell"}
TopFields == {"customer_segment", "customer_signals", "overall_score",
              "scores", "techniques_used", "missed_opportunities",
              "is_ethical", "summary"}
GivenScore == 7
GivenSegment == "vip"
GivenList == <<"x">>
GivenSummary == "text"

Analyses ==
    {[present |-> p, scores_is_dict |-> TRUE, scores |-> {}] :
        p \in SUBSET (TopFields \ {"scores"})}
    \cup {[present |-> p \cup {"scores"}, scores_is_dict |-> d, scores |-> s] :
            p \in SUBSET {"customer_segment", "overall_score", "is_ethical",
                          "techniques_used"},
            d \in BOOLEAN,
            s \in SUBSET ScoreFields}

\* analysis.get(key, default) for a field whose value, if there, is given
DictGet(present, key, given, default) ==
    IF key \in present THEN given ELSE default

\* lines 395-424: the row, or the branch that counts an error.  An object
\* without fields is falsy (line 395); scores.get on a "scores" that is no
\* object raises AttributeError into the handler of line 428.
BuildResult(analysis) ==
    IF analysis.present = {}
    THEN [built |-> FALSE, error |-> "parse", record |-> <<>>]
    ELSE IF "scores" \in analysis.present /\ ~analysis.scores_is_dict
    THEN [built |-> FALSE, error |-> "AttributeError", record |-> <<>>]
    ELSE LET scores == IF "scores" \in analysis.present
                       THEN analysis.scores ELSE {}
             a == analysis.present
         IN [built |-> TRUE, error |-> "none",
             record |->
               [customer_segment |->
                    DictGet(a, "customer_segment", GivenSegment, "unknown"),
                overall_score |-> DictGet(a, "overall_score", GivenScore, 0),
                greeting_score |-> DictGet(scores, "greeting", GivenScore, 0),
                needs_score |->
                    DictGet(scores, "needs_discovery", GivenScore, 0),
                presentation_score |->
                    DictGet(scores, "presentation", GivenScore, 0),
                objection_score |->
                    DictGet(scores, "objection_handling", GivenScore, 0),
                closing_score |-> DictGet(scores, "closing", GivenScore, 0),
                cross_sell_score |->
                    DictGet(scores, "cross_sell", GivenScore, 0),
                techniques |-> DictGet(a, "techniques_used", GivenList, <<>>),
                missed_opportunities |->
                    DictGet(a, "missed_opportunities", GivenList, <<>>),
                is_ethical |-> DictGet(a, "is_ethical", FALSE, TRUE),
                summary |-> DictGet(a, "summary", GivenSummary, "")]]

InitBuild ==
    /\ chats = <<>>
    /\ InitRunVars
    /\ \E a \in Analyses : fn_in = [f |-> "build", analysis |-> a]
    /\ fn_out = NoValue

ApplyBuild ==
    /\ fn_in.f = "build"
    /\ fn_out.f = "none"
    /\ LET r == BuildResult(fn_in.analysis) IN
          fn_out' = [f |-> "build", built |-> r.built, error |-> r.error,
                     record |-> r.record]
    /\ UNCHANGED <<runVars, fn_in>>

SpecBuild == InitBuild /\ [][ApplyBuild]_vars

(***************************************************************************)
(* format_dialog, lines 174-186, and main, lines 379-387: the transcript   *)
(* of a candidate, the skip of a short one and the cut of a long one.  A   *)
(* message is its direction and the length of its stripped text; a text is *)
(* kept as its length, a cut text as the number of its first characters    *)
(* kept and whether the marker follows them.                               *)
(***************************************************************************)
Directions == {"in", "out"}
TextLens == {0, 5, 41, 42, 7980, 7990, 8000}
Messages == [direction : Directions, text : TextLens]

\* line 183: the role an answer line starts with, in characters
RoleLen(direction) ==
    IF direction = "in" THEN ClientRoleLen ELSE ManagerRoleLen

\* lines 177-184: the lines of the messages that have a text
RECURSIVE DialogLines(_)
DialogLines(messages) ==
    IF messages = <<>> THEN <<>>
    ELSE LET msg == Head(messages) IN
         IF msg.text = 0 THEN DialogLines(Tail(messages))
         ELSE <<RoleLen(msg.direction) + 2 + msg.text>>
                \o DialogLines(Tail(messages))

\* line 186: the lines joined by line feeds, as the length of the text
format_dialog(messages) ==
    LET lines == DialogLines(messages) IN
    IF lines = <<>> THEN 0 ELSE SumSeq(lines) + Len(lines) - 1

\* the cut that keeps the whole text
PrepareDialog_noCut(dialog_len) ==
    IF dialog_len < MinDialogLen
    THEN [skipped |-> TRUE, kept |-> 0, marker |-> FALSE]
    ELSE [skipped |-> FALSE, kept |-> dialog_len, marker |-> FALSE]

\* lines 380-385: skip below 50 characters; above 8000 the first 8000 and
\* the marker
PrepareDialog(dialog_len) ==
    IF dialog_len < MinDialogLen
    THEN [skipped |-> TRUE, kept |-> 0, marker |-> FALSE]
    ELSE IF dialog_len > MaxDialogLen
    THEN [skipped |-> FALSE, kept |-> MaxDialogLen, marker |-> TRUE]
    ELSE [skipped |-> FALSE, kept |-> dialog_len, marker |-> FALSE]

\* lines 371-431 for one candidate: what the iteration does to the request
\* sent, the rows and the error counter.  A skipped candidate leaves the
\* iteration at the continue of line 382; for another one the scoring call
\* ends as out says.
Iteration(messages, out) ==
    LET d == PrepareDialog(format_dialog(messages)) IN
    IF d.skipped
    THEN [skipped |-> TRUE, request |-> <<>>, rows |-> 0, errors |-> 0]
    ELSE [skipped |-> FALSE,
          request |-> <<[kept |-> d.kept, marker |-> d.marker]>>,
          rows |-> IF BuildsRecord(out) THEN 1 ELSE 0,
          errors |-> IF BuildsRecord(out) THEN 0 ELSE 1]

InitDialog ==
    /\ chats = <<>>
    /\ InitRunVars
    /\ \E m \in SeqsUpTo(Messages, MaxMsgs) :
          fn_in = [f |-> "dialog", messages |-> m]
    /\ fn_out = NoValue

ApplyDialog ==
    /\ fn_in.f = "dialog"
    /\ fn_out.f = "none"
    /\ \E out \in ChatOutcomes :
          LET r == Iteration(fn_in.messages, out) IN
          fn_out' = [f |-> "dialog", skipped |-> r.skipped,
                     request |-> r.request, rows |-> r.rows,
                     errors |-> r.errors]
    /\ UNCHANGED <<runVars, fn_in>>

SpecDialog == InitDialog /\ [][ApplyDialog]_vars

(***************************************************************************)
(* aggregate_by_manager: send_reports.py lines 66-122, and the variants of *)
(* send_weekly_report.py (lines 137-191) and learning_bot.py (lines        *)
(* 116-153), which differ in how a score cell becomes a float.  A row has  *)
(* a manager_id, a chat_id and a cell for each of two skills; a cell is    *)
(* absent, empty, a number, a text with a decimal point, a text with a     *)
(* decimal comma or a text that is no number ("5.0" and "5,0" for the two  *)
(* decimal forms).  The skills of a manager are a dict in insertion order: *)
(* a sequence of [key, scores].                                            *)
(***************************************************************************)
ManagerIds == {"", "m1", "m2"}
ChatIds == {"c1", "c2"}
\* two keys of SKILL_NAMES, in the order of that table
AggSkillOrder == <<"greeting_score", "closing_score">>
AggSkills == {AggSkillOrder[i] : i \in 1..Len(AggSkillOrder)}
ScoreCells ==
    {[kind |-> "absent", val |-> 0], [kind |-> "empty", val |-> 0],
     [kind |-> "number", val |-> 0], [kind |-> "number", val |-> 7],
     [kind |-> "point", val |-> 5], [kind |-> "comma", val |-> 5],
     [kind |-> "text", val |-> 0]}
OtherCells == {[kind |-> "absent", val |-> 0], [kind |-> "number", val |-> 7]}
AnalysisRows ==
    [manager_id : ManagerIds, chat_id : ChatIds,
     greeting_score : ScoreCells, closing_score : OtherCells]

\* "if score": row.get(skill_key, 0) is falsy when the cell is absent (the
\* default 0), empty, or the number 0
Truthy(cell) ==
    ~(cell.kind \in {"absent", "empty"} \/ (cell.kind = "number" /\ cell.val = 0))

\* float(str(score).replace(',', '.')) when normalize, float(score) when
\* not: ok = FALSE for the ValueError, which the loop passes over
FloatOf(cell, normalize) ==
    IF cell.kind \in {"number", "point"} THEN [ok |-> TRUE, val |-> cell.val]
    ELSE IF cell.kind = "comma" /\ normalize THEN [ok |-> TRUE, val |-> cell.val]
    ELSE [ok |-> FALSE, val |-> 0]

\* the scores of skill k in a dict of skills, [] for a key not in it
ScoresOf(skills, k) ==
    IF \E i \in 1..Len(skills) : skills[i].key = k
    THEN skills[CHOOSE i \in 1..Len(skills) : skills[i].key = k].scores
    ELSE <<>>

\* m["skills"][skill_key].append(float(...)) for a truthy cell: the
\* defaultdict makes the key, with an empty list, before float is called,
\* so the key is there also when float raises
CollectScore(skills, k, cell, normalize) ==
    IF ~Truthy(cell) THEN skills
    ELSE LET withKey == IF \E i \in 1..Len(skills) : skills[i].key = k
                        THEN skills
                        ELSE Append(skills, [key |-> k, scores |-> <<>>])
             at == CHOOSE i \in 1..Len(withKey) : withKey[i].key = k
         IN  IF FloatOf(cell, normalize).ok
             THEN [withKey EXCEPT
                      ![at].scores = Append(@, FloatOf(cell, normalize).val)]
             ELSE withKey

\* the loop over SKILL_NAMES for one row, from the j-th key on
RECURSIVE CollectRow(_, _, _, _)
CollectRow(skills, row, j, normalize) ==
    IF j > Len(AggSkillOrder) THEN skills
    ELSE CollectRow(CollectScore(skills, AggSkillOrder[j],
                                 row[AggSkillOrder[j]], normalize),
                    row, j + 1, normalize)

NewManager == [chat_count |-> 0, skills |-> <<>>]

\* the loop over the rows; managers is a function from the manager ids seen
RECURSIVE AggregateRows(_, _, _)
AggregateRows(data, managers, normalize) ==
    IF data = <<>> THEN managers
    ELSE LET row == Head(data) IN
         IF row.manager_id = ""
         THEN AggregateRows(Tail(data), managers, normalize)
         ELSE LET m == IF row.manager_id \in DOMAIN managers
                       THEN managers[row.manager_id] ELSE NewManager
                  m2 == [chat_count |-> m.chat_count + 1,
                         skills |-> CollectRow(m.skills, row, 1, normalize)]
              IN  AggregateRows(Tail(data),
                                [id \in DOMAIN managers \cup {row.manager_id}
                                    |-> IF id = row.manager_id THEN m2
                                        ELSE managers[id]],
                                normalize)

\* send_reports.py
aggregate_by_manager(data) == AggregateRows(data, <<>>, TRUE)
\* send_weekly_report.py
aggregate_by_manager_weekly(data) == AggregateRows(data, <<>>, FALSE)
\* learning_bot.py
aggregate_by_manager_bot(data) == AggregateRows(data, <<>>, FALSE)

\* send_reports.py, lines 191-195: the weakest skills of every manager
WeakestByManager(managers) ==
    [id \in DOMAIN managers |->
        find_weakest_skills(calculate_skill_averages(managers[id].skills),
                            ReportTopN)]

InitAggregate ==
    /\ chats = <<>>
    /\ InitRunVars
    /\ \E d \in SeqsUpTo(AnalysisRows, MaxRecords) :
          fn_in = [f |-> "aggregate", data |-> d]
    /\ fn_out = NoValue

ApplyAggregate ==
    /\ fn_in.f = "aggregate"
    /\ fn_out.f = "none"
    /\ fn_out' = [f |-> "aggregate",
                  reports |-> aggregate_by_manager(fn_in.data),
                  weekly |-> aggregate_by_manager_weekly(fn_in.data),
                  bot |-> aggregate_by_manager_bot(fn_in.data),
                  weakest |-> WeakestByManager(
                                  aggregate_by_manager(fn_in.data))]
    /\ UNCHANGED <<runVars, fn_in>>

SpecAggregate == InitAggregate /\ [][ApplyAggregate]_vars

(***************************************************************************)
(* Runs without end: learning_bot.py, lines 437-445, schedules the         *)
(* analysis every hour.  Runs that have written nothing leave the store as *)
(* it was, so the next run differs from the last one only in the clock;    *)
(* RunAgain rewinds the run counter for it.  Once a record is written the  *)
(* runs are counted up to MaxRuns as before.                               *)
(***************************************************************************)
RunAgain ==
    /\ pc = "idle"
    /\ runs = MaxRuns
    /\ table = <<>>
    /\ runs' = MaxRuns - 1
    /\ UNCHANGED <<chats, table, pc, analyzed, chats_to_analyze,
                   total_to_analyze, idx, results, errors, requested,
                   notified, appended, prevClean, changes, last_out, env,
                   store_ops, ending, delivered, outcome, fn_in, fn_out,
                   run2>>

NextStarve ==
    \/ StartRun
    \/ ProcessCandidate
    \/ FinishRun
    \/ Return
    \/ RunAgain

\* every step of a run is taken in the end, and the scheduler fires again
SpecStarve == InitCap /\ [][NextStarve]_vars /\ WF_vars(NextStarve)

(***************************************************************************)
(* The quota of a run: the candidate loop of main, lines 368-431, taken on *)
(* its own over the candidates of a snapshot of new chats, with the        *)
(* requests of every call of GroqClient.chat (lines 143-171) counted.      *)
(* fn_in holds the candidates, fn_out the place in the loop, the requests  *)
(* of the run so far and those of the last call.                           *)
(***************************************************************************)
\* how one call can end and the requests it has made; every call starts
\* its attempt counter at 0
ChatCalls == {[result |-> GroqChat(r).result, text |-> GroqChat(r).text,
               requests |-> GroqChat(r).requests] : r \in RespSeqs}

\* main, lines 339-366
InitQuota ==
    /\ \E n \in 0..MaxCapChats, sh \in SUBSET (1..MaxShort) :
          chats = [k \in 1..n |->
                      [id |-> ToString(k), msgs |-> MinMessages,
                       status |-> "", outcome |-> "", short |-> (k \in sh)]]
    /\ InitRunVars
    /\ fn_in = [f |-> "quota",
                candidates |->
                    CapCandidates(
                        FilterFlagged(
                            load_chats_from_sheets(chats, LoadLimit, TRUE),
                            load_analyzed_chats(table, TRUE)))]
    /\ fn_out = [f |-> "quota", idx |-> 1, requests |-> 0, last |-> 0]

\* a loop that retries a failed candidate instead of moving on
VisitCandidate_retries ==
    /\ fn_in.f = "quota"
    /\ fn_out.idx <= Len(fn_in.candidates)
    /\ fn_out.requests <= MaxAttempts * (MAX_CHATS_PER_RUN + 1)
    /\ LET item == fn_in.candidates[fn_out.idx] IN
        IF item.short
        THEN fn_out' = [fn_out EXCEPT !.idx = @ + 1, !.last = 0]
        ELSE \E c \in ChatCalls :
               fn_out' = [fn_out EXCEPT
                             !.idx = IF c.result = "ok" THEN @ + 1 ELSE @,
                             !.requests = @ + c.requests,
                             !.last = c.requests]
    /\ UNCHANGED <<runVars, fn_in>>

\* main, lines 371-431, and GroqClient.chat, lines 143-171: one iteration
VisitCandidate ==
    /\ fn_in.f = "quota"
    /\ fn_out.idx <= Len(fn_in.candidates)
    /\ LET item == fn_in.candidates[fn_out.idx] IN
        IF item.short
        THEN fn_out' = [fn_out EXCEPT !.idx = @ + 1, !.last = 0]
        ELSE \E c \in ChatCalls :
               fn_out' = [fn_out EXCEPT !.idx = @ + 1,
                                        !.requests = @ + c.requests,
                                        !.last = c.requests]
    /\ UNCHANGED <<runVars, fn_in>>

SpecQuota == InitQuota /\ [][VisitCandidate]_vars

\* the loop is a for statement over a list: every iteration is taken, every
\* request returns or times out (timeout=90) and every sleep ends
SpecQuotaFair == SpecQuota /\ WF_vars(VisitCandidate)

(***************************************************************************)
(* The web access requests: web_auth.py, request_access (lines 177-243),   *)
(* approve_web_request (lines 312-366) and reject_web_request (lines       *)
(* 416-447), called by on_web_approve and on_web_reject of academy_bot.py  *)
(* (lines 591-662).  The database is the table web_access_requests, a      *)
(* sequence of [telegram_username, status] whose place is the id of the    *)
(* request, and the table web_users, a sequence of user names.  Every call *)
(* is one transaction: a call that raises before its commit leaves the     *)
(* database as it was.  fn_out holds the database and the last call.       *)
(***************************************************************************)
\* what the form sends as Telegram name
TelegramInputs == {"", "@", "u1", "@u1", "u2"}
\* web_auth.py line 181: strip().replace("@", "")
CleanUsername(t) ==
    IF t = "@" THEN "" ELSE IF t = "@u1" THEN "u1" ELSE t

NoDb == [requests |-> <<>>, users |-> <<>>]

\* the id of the latest request of a user name, 0 when there is none
LatestRequest(db, username) ==
    LET ids == {k \in 1..Len(db.requests) :
                   db.requests[k].telegram_username = username}
    IN  IF ids = {} THEN 0 ELSE CHOOSE k \in ids : \A j \in ids : j <= k

\* web_auth.py, lines 177-243: the database after the call and the reply
request_access(db, telegram, dbOk) ==
    LET telegram_username == CleanUsername(telegram)
        existing == LatestRequest(db, telegram_username)
    IN  IF telegram_username = ""
        THEN [db |-> db, returned |-> "400"]
        ELSE IF ~dbOk
        THEN [db |-> db, returned |-> "500"]
        ELSE IF existing # 0
                /\ db.requests[existing].status \in {"pending", "approved"}
        THEN [db |-> db, returned |-> "200"]
        ELSE IF \E k \in 1..Len(db.users) : db.users[k] = telegram_username
        THEN [db |-> db, returned |-> "200"]
        ELSE [db |-> [db EXCEPT !.requests =
                         Append(@, [telegram_username |-> telegram_username,
                                    status |-> "pending"])],
              returned |-> "200"]

\* an approval that looks the request up by its id alone
approve_web_request_anyStatus(db, request_id, dbOk) ==
    IF ~dbOk \/ request_id \notin 1..Len(db.requests)
    THEN [db |-> db, returned |-> "None"]
    ELSE LET telegram_username == db.requests[request_id].telegram_username
         IN  [db |-> [requests |-> [db.requests EXCEPT
                                       ![request_id].status = "approved"],
                      users |-> Append(db.users, telegram_username)],
              returned |-> telegram_username]

\* web_auth.py, lines 312-366: the database after the call and the user
\* name returned ("None" for the tuple of None)
approve_web_request(db, request_id, dbOk) ==
    IF ~dbOk
    THEN [db |-> db, returned |-> "None"]
    ELSE IF request_id \notin 1..Len(db.requests)
            \/ db.requests[request_id].status # "pending"
    THEN [db |-> db, returned |-> "None"]
    ELSE LET telegram_username == db.requests[request_id].telegram_username
         IN  [db |-> [requests |-> [db.requests EXCEPT
                                       ![request_id].status = "approved"],
                      users |-> Append(db.users, telegram_username)],
              returned |-> telegram_username]

\* web_auth.py, lines 416-447
reject_web_request(db, request_id, dbOk) ==
    IF ~dbOk
    THEN [db |-> db, returned |-> "None"]
    ELSE IF request_id \notin 1..Len(db.requests)
            \/ db.requests[request_id].status # "pending"
    THEN [db |-> db, returned |-> "None"]
    ELSE [db |-> [db EXCEPT !.requests[request_id].status = "rejected"],
          returned |-> db.requests[request_id].telegram_username]

InitAccess ==
    /\ chats = <<>>
    /\ InitRunVars
    /\ fn_in = [f |-> "access"]
    /\ fn_out = [f |-> "access", db |-> NoDb,
                 last |-> [op |-> "none", id |-> 0, returned |-> "None"]]

\* the call has been made: its database and its reply are kept
Called(op, id, r) ==
    fn_out' = [f |-> "access", db |-> r.db,
               last |-> [op |-> op, id |-> id, returned |-> r.returned]]

\* POST /api/request-access
RequestAccess ==
    /\ fn_in.f = "access"
    /\ Len(fn_out.db.requests) < MaxRequests
    /\ \E t \in TelegramInputs, dbOk \in BOOLEAN :
          Called("request", 0, request_access(fn_out.db, t, dbOk))
    /\ UNCHANGED <<runVars, fn_in>>

\* academy_bot.py, lines 591-642: the admin taps the approve button of a
\* request message; the button stays on every message the bot has sent
on_web_approve ==
    /\ fn_in.f = "access"
    /\ \E id \in 1..MaxRequests, dbOk \in BOOLEAN :
          Called("approve", id, approve_web_request(fn_out.db, id, dbOk))
    /\ UNCHANGED <<runVars, fn_in>>

\* academy_bot.py, lines 644-662
on_web_reject ==
    /\ fn_in.f = "access"
    /\ \E id \in 1..MaxRequests, dbOk \in BOOLEAN :
          Called("reject", id, reject_web_request(fn_out.db, id, dbOk))
    /\ UNCHANGED <<runVars, fn_in>>

NextAccess ==
    \/ RequestAccess
    \/ on_web_approve
    \/ on_web_reject

SpecAccess == InitAccess /\ [][NextAccess]_vars

(***************************************************************************)
(* Properties.                                                             *)
(***************************************************************************)

\* the rows of chat c, and its latest one by analyzed_at
RowsOf(t, c) == {k \in 1..Len(t) : t[k].chat_id = c}
HasRow(t, c) == RowsOf(t, c) # {}
LatestRow(t, c) ==
    t[CHOOSE k \in RowsOf(t, c) :
        \A j \in RowsOf(t, c) : t[j].analyzed_at <= t[k].analyzed_at]

\* a chat is stale with respect to its latest persisted record
StaleAgainstLatest(chat, t) ==
    \/ ~HasRow(t, chat.id)
    \/ chat.msgs > LatestRow(t, chat.id).message_count
    \/ /\ ChatStatus(chat) # ""
       /\ ChatStatus(chat) # LatestRow(t, chat.id).chat_status

ChatOfId(c) == chats[CHOOSE k \in 1..Len(chats) : chats[k].id = c]

\* C1: a run that starts after a run that scored and persisted everything it
\* flagged, with no change to the snapshot in between, flags no chat and
\* appends no row.
C1_SecondRunFlagsNothing ==
    [][(runs' = runs + 1 /\ prevClean)
          => (total_to_analyze' = 0 /\ pc' = "done" /\ table' = table)]_vars

\* the scoring call returned and its text parsed to an analysis object
ScoredAndParsed(out) == out.result = "ok" /\ out.text = "dict"

\* C2: a row is built only for the candidate whose scoring call returned a
\* text that parsed to an object, in the step that processed it; a failed
\* call, an unparsable text and a skip leave the results unchanged; and the
\* table grows only by the results of the finishing run.
C2_RecordOnlyOnSuccess ==
    [][/\ (pc = "loop" /\ pc' = "loop" /\ results' # results)
            => /\ ScoredAndParsed(last_out')
               /\ Len(results') = Len(results) + 1
               /\ SubSeq(results', 1, Len(results)) = results
               /\ results'[Len(results')].chat_id = chats_to_analyze[idx].chat_id
       /\ (pc = "loop" /\ idx' = idx + 1 /\ ~ScoredAndParsed(last_out'))
            => results' = results
       /\ (table' # table)
            => /\ pc = "loop" /\ pc' = "done"
               /\ table' = table \o results]_vars

C2_Witness ==
    /\ pc = "done"
    /\ Len(chats_to_analyze) = 2
    /\ appended = 1
    /\ errors = 1
    /\ Len(table) >= 1

\* C3: no two rows of the analysis table have the same chat id and the same
\* message count.
C3_NoDoubleRecord ==
    \A i, j \in 1..Len(table) :
        (i < j /\ table[i].chat_id = table[j].chat_id)
            => table[i].message_count # table[j].message_count

\* C4: during a run, every chat a scoring request was issued for has no
\* persisted row, or more messages than its latest row, or a non-empty
\* status that differs from the one of its latest row.
C4_NoDoubleCharge ==
    pc = "loop" => \A c \in requested : StaleAgainstLatest(ChatOfId(c), table)

\* C5: for a chat id without an entry in analyzed, needs_reanalysis returns
\* (True, "new") for every message count and status.
C5_NewChat ==
    (fn_out.f = "needs_reanalysis" /\ fn_in.chat_id \notin DOMAIN fn_in.analyzed)
        => (fn_out.need = TRUE /\ fn_out.reason = <<"new">>)

C5_Witness ==
    /\ fn_out.f = "needs_reanalysis"
    /\ fn_in.chat_id \notin DOMAIN fn_in.analyzed
    /\ fn_in.analyzed # <<>>
    /\ fn_in.count = 0
    /\ fn_in.status = ""
    /\ fn_out.need = TRUE

\* C6: for a chat with an entry, a message count above the entry's makes
\* needs_reanalysis return True whatever the statuses are; equal counts and
\* an equal status make it return False.
C6_CountRule ==
    (fn_out.f = "needs_reanalysis" /\ fn_in.chat_id \in DOMAIN fn_in.analyzed)
        => LET prev == fn_in.analyzed[fn_in.chat_id] IN
           /\ fn_in.count > prev.message_count => fn_out.need = TRUE
           /\ (fn_in.count = prev.message_count
                 /\ fn_in.status = prev.chat_status) => fn_out.need = FALSE

C6_Witness ==
    /\ fn_out.f = "needs_reanalysis"
    /\ fn_in.chat_id \in DOMAIN fn_in.analyzed
    /\ fn_in.count = fn_in.analyzed[fn_in.chat_id].message_count
    /\ fn_in.status = fn_in.analyzed[fn_in.chat_id].chat_status
    /\ fn_in.status # ""
    /\ fn_out.need = FALSE

\* C7: for a chat with an entry and an unchanged message count, a non-empty
\* status that differs from the entry's makes needs_reanalysis return True,
\* and an empty status makes it return False whatever the entry's status is.
C7_StatusRule ==
    (/\ fn_out.f = "needs_reanalysis"
     /\ fn_in.chat_id \in DOMAIN fn_in.analyzed
     /\ fn_in.count = fn_in.analyzed[fn_in.chat_id].message_count)
        => LET prev == fn_in.analyzed[fn_in.chat_id] IN
           /\ (fn_in.status # "" /\ fn_in.status # prev.chat_status)
                 => fn_out.need = TRUE
           /\ fn_in.status = "" => fn_out.need = FALSE

C7_Witness ==
    /\ fn_out.f = "needs_reanalysis"
    /\ fn_in.chat_id \in DOMAIN fn_in.analyzed
    /\ fn_in.count = fn_in.analyzed[fn_in.chat_id].message_count
    /\ fn_in.status = ""
    /\ fn_in.analyzed[fn_in.chat_id].chat_status = "paid"
    /\ fn_out.need = FALSE

\* change detection of a chat against nothing but its latest row
DecisionAgainstLatest(chat, t) ==
    IF ~HasRow(t, chat.id)
    THEN TRUE
    ELSE needs_reanalysis(chat.id, chat.msgs, ChatStatus(chat),
             (chat.id :> [message_count |-> LatestRow(t, chat.id).message_count,
                          chat_status |-> LatestRow(t, chat.id).chat_status]))[1]

\* C8: the chats a run flags are exactly the loaded chats that are stale
\* against their single latest row (by analyzed_at); older rows play no part.
C8_LatestRecordDecides ==
    (pc = "loop" /\ total_to_analyze <= MAX_CHATS_PER_RUN)
        => \A k \in 1..Len(chats) :
              chats[k].msgs >= MinMessages
                  => ((\E i \in 1..Len(chats_to_analyze) :
                          chats_to_analyze[i].chat_id = chats[k].id)
                      <=> DecisionAgainstLatest(chats[k], table))

\* the number of chats of the snapshot that change detection flags
EligibleCount ==
    Cardinality({k \in 1..Len(chats) :
                    /\ chats[k].msgs >= MinMessages
                    /\ needs_reanalysis(chats[k].id, chats[k].msgs,
                                        ChatStatus(chats[k]), analyzed)[1]})

Starts429(resps, n) == \A j \in 1..n : resps[j] = "429"

ReachesAttempt(resps, n) == \A j \in 1..n : resps[j] \in {"429", "fail"}
AllFail(resps) == \A j \in 1..MaxAttempts : resps[j] = "fail"

\* C11: in one call of chat, a request failure (not a 429) at loop index a
\* below the last is followed by a sleep of 10 * (a + 1) seconds and one
\* more request; a call whose requests all fail makes five requests, sleeps
\* 10, 20, 30, 40 and ends as unavailable, as does every call whose fifth
\* request fails.
C11_ErrorBackoff ==
    fn_out.f = "chat"
        => /\ \A a \in 0..3 :
                (ReachesAttempt(fn_in.resps, a) /\ fn_in.resps[a + 1] = "fail")
                    => /\ Len(fn_out.sleeps) >= a + 1
                       /\ fn_out.sleeps[a + 1] = 10 * (a + 1)
                       /\ fn_out.requests >= a + 2
           /\ AllFail(fn_in.resps)
                => /\ fn_out.requests = 5
                   /\ fn_out.sleeps = <<10, 20, 30, 40>>
                   /\ fn_out.result = "Unavailable"
           /\ (ReachesAttempt(fn_in.resps, 4) /\ fn_in.resps[5] = "fail")
                => /\ fn_out.requests = 5
                   /\ fn_out.result = "Unavailable"

C11_Witness ==
    /\ fn_out.f = "chat"
    /\ AllFail(fn_in.resps)
    /\ fn_out.sleeps = <<10, 20, 30, 40>>
    /\ fn_out.result = "Unavailable"

\* the same outcomes answered without any rate-limit header
BareHeaders(resps) == [j \in 1..Len(resps) |-> NoHeaders]

\* C12: a call of chat sleeps the same sequence of waits, makes the same
\* number of requests and ends the same way as the call that gets the same
\* outcomes with no retry-after and no rate-limit header at all; hence any
\* two calls with the same outcomes and different headers do the same.
C12_HintsDoNotOverride ==
    fn_out.f = "chat_headers"
        => LET bare == GroqChatHeaders(fn_in.resps, BareHeaders(fn_in.resps))
           IN  /\ fn_out.sleeps = bare.sleeps
               /\ fn_out.requests = bare.requests
               /\ fn_out.result = bare.result
               /\ fn_out.text = bare.text
               /\ fn_out.sleeps = GroqChat(fn_in.resps).sleeps

C12_Witness ==
    /\ fn_out.f = "chat_headers"
    /\ fn_in.resps[1] = "429"
    /\ fn_in.resps[2] = "429"
    /\ fn_in.resps[3] = "dict"
    /\ fn_in.hdrs[1] # NoHeaders
    /\ fn_in.hdrs[2] = NoHeaders
    /\ fn_out.printed = <<<<"1", "30", "0", "1">>, <<"?", "?", "?", "?">> >>
    /\ fn_out.sleeps = <<60, 120>>
    /\ fn_out.result = "ok"

\* C13: every step leaves the rows that were in the analysis table where
\* they were and as they were: the table before the step is a prefix of the
\* table after it.
C13_AppendOnly ==
    [][/\ Len(table') >= Len(table)
       /\ SubSeq(table', 1, Len(table)) = table]_vars

C13_Witness ==
    /\ pc = "done"
    /\ runs = 2
    /\ appended >= 1
    /\ Len(table) > appended

\* C14: of two rows of one chat, the one lower in the sheet, and the one
\* with the later analyzed_at, has a message count at least as large as the
\* other (the snapshot changes by AddMessage and SetStatus only, so the
\* message log of a chat only grows).
C14_CountMonotone ==
    \A i, j \in 1..Len(table) :
        table[i].chat_id = table[j].chat_id
            => /\ i < j => table[i].message_count <= table[j].message_count
               /\ table[i].analyzed_at < table[j].analyzed_at
                    => table[i].message_count <= table[j].message_count

\* a chat re-scored for a status change alone, after a row with the same count
C14_Witness ==
    \E i, j \in 1..Len(table) :
        /\ i < j
        /\ table[i].chat_id = table[j].chat_id
        /\ table[i].message_count = table[j].message_count
        /\ table[i].chat_status = ""
        /\ table[j].chat_status = "paid"
        /\ analyzed = (table[i].chat_id :>
                          [message_count |-> table[i].message_count,
                           chat_status |-> "", row_index |-> i + 1])

\* the scoring call of a candidate was exhausted or failed otherwise, or
\* its text did not parse to an analysis
CandidateFailed(out) ==
    out.result \notin {"none", "skipped"} /\ ~ScoredAndParsed(out)

\* C15: a step of the candidate loop moves to the next candidate whatever
\* happened to the current one; when the current one failed (call exhausted
\* as rate limited or unavailable, or text not parsed) it adds exactly one
\* to errors and leaves results alone; and the loop is left only after the
\* last candidate, a request having been issued for every candidate that
\* was not skipped as too short.
C15_FailureDoesNotStopBatch ==
    [][/\ (pc = "loop" /\ pc' = "loop" /\ idx' # idx)
            => /\ idx' = idx + 1
               /\ CandidateFailed(last_out')
                    => (errors' = errors + 1 /\ results' = results)
               /\ ~CandidateFailed(last_out') => errors' = errors
       /\ (pc = "loop" /\ pc' = "done")
            => /\ idx = Len(chats_to_analyze) + 1
               /\ \A i \in 1..Len(chats_to_analyze) :
                     ~chats_to_analyze[i].short
                        => chats_to_analyze[i].chat_id \in requested]_vars

\* the first two candidates failed and the third was scored
C15_Witness ==
    /\ pc = "done"
    /\ Len(chats_to_analyze) = 3
    /\ errors = 2
    /\ Len(results) = 1
    /\ results[1].chat_id = chats_to_analyze[3].chat_id
    /\ Cardinality(requested) = 3

\* C16: main ends by returning, or by raising the ValueError of the
\* credentials check; no other exception leaves it, whatever fails in the
\* spreadsheet reads, the scoring calls, the parsing or the write.
C16_OnlyConfigErrorEscapes ==
    pc = "done" => outcome \in {"returned", "ValueError"}

\* C17: a run whose environment lacks GROQ_API_KEY, GOOGLE_SHEETS_ID or
\* GOOGLE_SERVICE_ACCOUNT_JSON never enters the candidate loop: it has
\* attempted no spreadsheet operation (no open, read or write), issued no
\* scoring request, built and appended nothing, handed the error message to
\* telegram.send, and ended by raising ValueError.
C17_MissingCredentialAborts ==
    env # FullEnv
        => /\ pc = "done"
           /\ store_ops = {}
           /\ requested = {}
           /\ results = <<>>
           /\ errors = 0
           /\ appended = 0
           /\ notified.kind = "error"
           /\ delivered # "none"
           /\ ending = "ValueError"
           /\ outcome = "ValueError"

\* a run without the service-account data, started when the table had rows
C17_Witness ==
    /\ pc = "done"
    /\ ~env.sa_json
    /\ outcome = "ValueError"
    /\ store_ops = {}
    /\ Len(table) >= 1

\* C18: when a run has ended, it has ended the way main ends for every
\* delivery of its notification, the successful one included: a message
\* that was not delivered (no token or chat id, network error, non-200
\* reply) changes neither how main ends nor the rows the run appended,
\* which are its results when it wrote them and none otherwise.
C18_DeliveryFailureHarmless ==
    pc = "done"
        => /\ \A d \in Deliveries :
                outcome = AfterSend(TelegramSend(d), ending)
           /\ appended = IF notified.kind = "summary" THEN Len(results) ELSE 0
           /\ notified.kind = "summary"
                => SubSeq(table, Len(table) - Len(results) + 1, Len(table))
                       = results

\* the summary of a run that appended a row was not delivered
C18_Witness ==
    /\ pc = "done"
    /\ delivered = "False"
    /\ notified.kind = "summary"
    /\ appended >= 1
    /\ outcome = "returned"

\* C19: a run that had candidates and returned has sent the summary with
\* its three counts: the rows scored, the errors, and the flagged chats left
\* for later runs; so has a run none of whose candidates was scored.
C19_EndReportsCounts ==
    (pc = "done" /\ outcome = "returned" /\ chats_to_analyze # <<>>)
        => /\ notified.kind = "summary"
           /\ notified.scored = Len(results)
           /\ notified.errors = errors
           /\ notified.remaining = total_to_analyze - Len(chats_to_analyze)

\* shapes of a response
IsProse(t) == \A k \in 1..Len(t) : t[k] \in {"w", "\n"}
HasWord(t) == \E k \in 1..Len(t) : t[k] = "w"
NoFence(t) == \A k \in 1..Len(t) : t[k] # "fence"
\* a JSON object between an opening and a closing fence line
IsFencedObject(t) ==
    /\ Len(t) >= 6
    /\ SubSeq(t, 1, 2) = <<"fence", "\n">>
    /\ SubSeq(t, Len(t) - 1, Len(t)) = <<"\n", "fence">>
    /\ IsObject(SubSeq(t, 3, Len(t) - 2))
\* no stretch of the response is a JSON object
ContainsNoObject(t) ==
    \A i, j \in 1..Len(t) : i <= j => ~IsObject(NoWs(SubSeq(t, i, j)))

\* C20: parse_llm_response returns the decoded object for an object
\* between two fence lines, for an object on its own, and for an object
\* with prose around it, the object being the first balanced brace span of
\* the response; it returns None for a response no stretch of which is a
\* JSON object.
C20_ParseCases ==
    fn_out.f = "parse"
        => LET t == fn_in.text IN
           /\ IsFencedObject(t)
                => fn_out.value = [kind |-> "object",
                                   tokens |-> SubSeq(t, 3, Len(t) - 2)]
           /\ IsObject(NoWs(t))
                => fn_out.value = [kind |-> "object", tokens |-> NoWs(t)]
           /\ \A i, j \in 1..Len(t) :
                (/\ i < j
                 /\ IsObject(SubSeq(t, i, j))
                 /\ IsProse(SubSeq(t, 1, i - 1))
                 /\ NoFence(SubSeq(t, j + 1, Len(t)))
                 /\ HasWord(SubSeq(t, 1, i - 1) \o SubSeq(t, j + 1, Len(t))))
                    => fn_out.value = [kind |-> "object",
                                       tokens |-> SubSeq(t, i, j)]
           /\ ContainsNoObject(t) => fn_out.value = NoneValue

\* C21: parse_llm_response raises for no response: it returns a value or
\* None.
C21_ParserNeverRaises ==
    fn_out.f = "parse" => fn_out.raised = "none"

\* the skills of a manager that have at least one score
WithData(skills) == {i \in 1..Len(skills) : skills[i].scores # <<>>}
MeanOf(skills, k) ==
    LET i == CHOOSE j \in 1..Len(skills) : skills[j].key = k
    IN  Round1(SumSeq(skills[i].scores), Len(skills[i].scores))
IsWeakestOf(out, skills, top_n) ==
    /\ Len(out) = Min(top_n, Cardinality(WithData(skills)))
    /\ \A a \in 1..Len(out) :
          /\ \E i \in WithData(skills) : skills[i].key = out[a].key
          /\ out[a].avg = MeanOf(skills, out[a].key)
    /\ \A a, b \in 1..Len(out) :
          /\ a < b => out[a].avg <= out[b].avg
          /\ a # b => out[a].key # out[b].key
    /\ \A i \in WithData(skills) :
          (\A a \in 1..Len(out) : out[a].key # skills[i].key)
              => \A a \in 1..Len(out) : out[a].avg <= MeanOf(skills, skills[i].key)

\* C22: the weakest skills are min(top_n, number of skills with scores)
\* pairs of a skill that has scores and its average, no skill twice, in
\* ascending order of the average, and every skill left out has an average
\* no lower than the ones returned; both implementations agree.
C22_WeakestSkills ==
    fn_out.f = "weakest"
        => /\ IsWeakestOf(fn_out.value, fn_in.skills, fn_in.top_n)
           /\ IsWeakestOf(fn_out.bot, fn_in.skills, fn_in.top_n)

\* the chats a run flags when it reads the snapshot cs and the rows t
FlaggedIds(cs, t) ==
    LET f == FilterFlagged(load_chats_from_sheets(cs, LoadLimit, TRUE),
                           load_analyzed_chats(t, TRUE))
    IN  {f[k].chat_id : k \in 1..Len(f)}
\* the chats flagged by the run in progress, those past the cap included
FlaggedByRun ==
    LET f == FilterFlagged(load_chats_from_sheets(chats, LoadLimit, TRUE),
                           analyzed)
    IN  {f[k].chat_id : k \in 1..Len(f)}
IsCompleteRecord(row) ==
    DOMAIN row = {"chat_id", "message_count", "chat_status", "analyzed_at"}

\* C23: when a run is killed, the table is the table before the kill
\* followed by zero or more complete rows built by the run, and every chat
\* the run had flagged that has no new row is flagged by the next run.
C23_CrashRecovery ==
    [][(pc = "loop" /\ pc' = "done" /\ ending' = "killed")
        => /\ Len(table') >= Len(table)
           /\ SubSeq(table', 1, Len(table)) = table
           /\ \A k \in (Len(table) + 1)..Len(table') :
                 /\ IsCompleteRecord(table'[k])
                 /\ \E r \in 1..Len(results) : results[r] = table'[k]
           /\ \A c \in FlaggedByRun :
                 (\A k \in (Len(table) + 1)..Len(table') :
                     table'[k].chat_id # c)
                    => c \in FlaggedIds(chats', table')]_vars

\* the rows of t2 that t does not hold at the same place
WrittenRows(t, t2) ==
    {k \in 1..Len(t2) : k > Len(t) \/ t2[k] # t[k]}
\* the rows written are rows of rs, one place for each, in order
WritesOncePerScore(t, t2, rs) ==
    /\ rs # <<>>
    /\ \E s \in 0..Len(t) :
          \A k \in WrittenRows(t, t2) :
              /\ k - s \in 1..Len(rs)
              /\ t2[k] = rs[k - s]

\* C24: whenever the analysis table changes, the rows written are records
\* one of the two runs has built from successful scores, each record at one
\* place at most; no run writes without a record.
C24_OneMutationPerScore ==
    [][table' # table
        => /\ Len(table') >= Len(table)
           /\ \/ WritesOncePerScore(table, table', results)
              \/ WritesOncePerScore(table, table', run2.results)]_vars

\* both runs have scored and written while they overlapped
C24_Witness ==
    /\ pc = "done"
    /\ run2.pc = "done"
    /\ appended >= 1
    /\ run2.appended >= 1
    /\ runs = MaxRuns

\* a timestamp fromisoformat can read
Parsable(ts) == ts.kind \in {"aware", "naive"}

\* C25: load_analysis_data raises for no row; it returns, in order, the
\* rows whose analyzed_at is missing or cannot be parsed and the rows whose
\* timestamp is at most `days` days old, and no other row.
C25_WindowFilter ==
    fn_out.f = "window"
        => /\ fn_out.raised = "none"
           /\ fn_out.rows =
                SelectSeq(fn_in.data,
                          LAMBDA ts : ~Parsable(ts) \/ ts.age <= fn_in.days)

\* the places in the snapshot of the chats the run has loaded and flagged
FlaggedPlaces ==
    {k \in 1..Min(Len(chats), LoadLimit) :
        /\ chats[k].msgs >= MinMessages
        /\ needs_reanalysis(chats[k].id, chats[k].msgs, ChatStatus(chats[k]),
                            analyzed)[1]}
\* the flagged chats that come before place k
FlaggedBefore(k) == {j \in FlaggedPlaces : j < k}

\* C26: the candidates of a run are the flagged chats that have fewer than
\* cap flagged chats before them in the snapshot, each at the place its
\* rank among the flagged chats gives it; a flagged chat that is no
\* candidate has at least cap flagged chats before it.
C26_FirstCapInOrder ==
    pc = "loop"
        => /\ Len(chats_to_analyze)
                = Min(Cardinality(FlaggedPlaces), MAX_CHATS_PER_RUN)
           /\ total_to_analyze = Cardinality(FlaggedPlaces)
           /\ \A k \in FlaggedPlaces :
                 LET rank == Cardinality(FlaggedBefore(k)) + 1 IN
                 IF rank <= MAX_CHATS_PER_RUN
                 THEN chats_to_analyze[rank].chat_id = chats[k].id
                 ELSE \A i \in 1..Len(chats_to_analyze) :
                         chats_to_analyze[i].chat_id # chats[k].id

\* a run that passes over chats that have a row and defers flagged ones
C26_Witness ==
    /\ pc = "loop"
    /\ total_to_analyze > Len(chats_to_analyze)
    /\ analyzed # <<>>
    /\ chats[1].id \in DOMAIN analyzed
    /\ chats_to_analyze[1].chat_id = chats[2].id

\* row is one of the rows of the table
InTable(row) == \E k \in 1..Len(table) : table[k] = row

\* C27: while a run is in its loop, every record it has built is in the
\* analysis table, except the record of the candidate it has just scored.
C27_PersistedBeforeNextCall ==
    pc = "loop"
        => \A r \in 1..Len(results) :
              \/ InTable(results[r])
              \/ /\ idx > 1
                 /\ results[r].chat_id = chats_to_analyze[idx - 1].chat_id

\* C28: when a scoring call of the run has ended and the next candidate is
\* about to be scored, the run has slept 60 s since the call, whether the
\* call gave a record, a response that could not be parsed, or an error.
C28_Pacing ==
    (/\ pc = "loop"
     /\ last_out.result \notin {"none", "skipped"}
     /\ idx <= Len(chats_to_analyze)
     /\ ~chats_to_analyze[idx].short)
        => last_out.slept = InterCallDelay

\* C29: when the write of a run fails, the failure is notified, the
\* analysis table is as it was before the write, and every chat that has a
\* record in the failed write is flagged by the next run.
C29_WriteFailure ==
    [][(/\ pc = "loop"
        /\ pc' = "done"
        /\ ending' = "raised"
        /\ "write" \in store_ops')
        => /\ table' = table
           /\ notified'.kind = "error"
           /\ \A r \in 1..Len(results) :
                 results[r].chat_id \in FlaggedIds(chats', table')]_vars

\* the field of the row a score field of the response goes to
RowFieldOf(score) ==
    CASE score = "greeting" -> "greeting_score"
      [] score = "needs_discovery" -> "needs_score"
      [] score = "presentation" -> "presentation_score"
      [] score = "objection_handling" -> "objection_score"
      [] score = "closing" -> "closing_score"
      [] score = "cross_sell" -> "cross_sell_score"

\* C30: for a parsed object whose "scores", if there, is an object, a row
\* is built whatever fields the object lacks, also when it lacks all; in
\* the row a score that is missing is 0, a list that is missing is empty,
\* is_ethical is true if missing, summary is empty if missing and
\* customer_segment is "unknown" if missing.
C30_DefaultsForMissing ==
    (fn_out.f = "build" /\ fn_in.analysis.scores_is_dict)
        => LET a == fn_in.analysis
               rec == fn_out.record
           IN  /\ fn_out.built
               /\ "overall_score" \notin a.present => rec.overall_score = 0
               /\ \A s \in ScoreFields :
                     ("scores" \notin a.present \/ s \notin a.scores)
                        => rec[RowFieldOf(s)] = 0
               /\ "techniques_used" \notin a.present => rec.techniques = <<>>
               /\ "missed_opportunities" \notin a.present
                     => rec.missed_opportunities = <<>>
               /\ "is_ethical" \notin a.present => rec.is_ethical = TRUE
               /\ "summary" \notin a.present => rec.summary = ""
               /\ "customer_segment" \notin a.present
                     => rec.customer_segment = "unknown"

\* C31: a candidate whose transcript has fewer than 50 characters sends no
\* request, gives no row and no error; a transcript of more than 8000
\* characters is sent as its first 8000 characters and the marker; any
\* other transcript is sent whole.
C31_ShortAndLong ==
    fn_out.f = "dialog"
        => LET n == format_dialog(fn_in.messages) IN
           /\ n < 50
                => /\ fn_out.request = <<>>
                   /\ fn_out.rows = 0
                   /\ fn_out.errors = 0
           /\ n >= 50 => Len(fn_out.request) = 1
           /\ n > 8000
                => fn_out.request = <<[kept |-> 8000, marker |-> TRUE]>>
           /\ (n >= 50 /\ n <= 8000)
                => fn_out.request = <<[kept |-> n, marker |-> FALSE]>>

\* a transcript of more than 8000 characters has been cut and sent
C31_Witness ==
    /\ fn_out.f = "dialog"
    /\ format_dialog(fn_in.messages) > 8000
    /\ fn_out.request # <<>>
    /\ fn_out.request[1].marker

\* a cell that holds a number, written either way
IsNumeric(cell) == cell.kind \in {"number", "point", "comma"}
\* the values of the numeric cells of skill k in the rows of manager id, in
\* row order
RECURSIVE NumericScores(_, _, _)
NumericScores(data, id, k) ==
    IF data = <<>> THEN <<>>
    ELSE (IF Head(data).manager_id = id /\ IsNumeric(Head(data)[k])
          THEN <<Head(data)[k].val>> ELSE <<>>)
            \o NumericScores(Tail(data), id, k)
AggregatesAsClaimed(managers, data) ==
    /\ DOMAIN managers
          = {data[i].manager_id : i \in 1..Len(data)} \ {""}
    /\ \A id \in DOMAIN managers : \A k \in AggSkills :
          ScoresOf(managers[id].skills, k) = NumericScores(data, id, k)

\* C32: each of the three aggregate_by_manager groups the rows by
\* manager_id and gives every manager, for every skill, the list of the
\* numeric values of that skill in the manager's rows, in row order, a
\* value written with a decimal comma included; only a cell that holds no
\* number is passed over.
C32_AggregateAppendsNumeric ==
    fn_out.f = "aggregate"
        => /\ AggregatesAsClaimed(fn_out.reports, fn_in.data)
           /\ AggregatesAsClaimed(fn_out.weekly, fn_in.data)
           /\ AggregatesAsClaimed(fn_out.bot, fn_in.data)

\* the chats of manager id that have a row in data
ChatsOf(data, id) ==
    {data[i].chat_id : i \in {j \in 1..Len(data) : data[j].manager_id = id}}

\* C33: in the aggregate of a manager, chat_count and the length of every
\* skill list are at most the number of distinct chats of the manager that
\* have a row in the data.
C33_OneValuePerChat ==
    fn_out.f = "aggregate"
        => \A id \in DOMAIN fn_out.reports :
              LET n == Cardinality(ChatsOf(fn_in.data, id)) IN
              /\ fn_out.reports[id].chat_count <= n
              /\ \A k \in AggSkills :
                    Len(ScoresOf(fn_out.reports[id].skills, k)) <= n

\* the place of a key in the skill-name table
PlaceOf(k) == CHOOSE i \in 1..Len(AggSkillOrder) : AggSkillOrder[i] = k

\* C34: in the weakest skills of a manager, two skills with the same
\* average stand in the order of the skill-name table, whatever rows the
\* scores came from.
C34_TiesInTableOrder ==
    fn_out.f = "aggregate"
        => \A id \in DOMAIN fn_out.weakest :
              LET w == fn_out.weakest[id] IN
              \A a, b \in 1..Len(w) :
                  (a < b /\ w[a].avg = w[b].avg)
                      => PlaceOf(w[a].key) < PlaceOf(w[b].key)

\* the two runs hold a record of the same conversation
SharedRecords ==
    {p \in (1..Len(results)) \X (1..Len(run2.results)) :
        results[p[1]].chat_id = run2.results[p[2]].chat_id}

C35_BothAppended ==
    /\ runs = MaxRuns
    /\ pc = "done"
    /\ run2.pc = "done"
    /\ SharedRecords # {}
    /\ \E a, b \in 1..Len(table) :
          /\ a # b
          /\ table[a].chat_id = table[b].chat_id
          /\ table[a].message_count = table[b].message_count
          /\ table[a].chat_status = table[b].chat_status

\* C36: append_to_worksheet preserves rows under concurrency: a write by
\* either run leaves every row the table held in place and adds one row
\* for each record of the writer.
C36_AppendPreservesRows ==
    [][table' # table \/ run2'.appended # run2.appended
        => /\ \A k \in 1..Len(table) : table'[k] = table[k]
           /\ \/ Len(table') = Len(table) + Len(results)
              \/ Len(table') = Len(table) + Len(run2.results)]_vars

\* the last conversation of the snapshot is a candidate of the run
LastSelected ==
    /\ pc = "loop"
    /\ chats # <<>>
    /\ \E j \in 1..Len(chats_to_analyze) :
          chats_to_analyze[j].chat_id = chats[Len(chats)].id

\* C37: no flagged conversation is dropped for ever: when runs keep
\* reaching the candidate loop of an unchanged snapshot and no run raises,
\* the last conversation of the snapshot is a candidate in the end, also
\* when the candidates before it fail or are skipped in every run.
C37_NoStarvation ==
    (([]<>(pc = "loop")) /\ [](ending # "raised")) => <>LastSelected

\* the quota used so far is within the bounds
QuotaBounded ==
    fn_out.f = "quota"
        => /\ Len(fn_in.candidates) <= MAX_CHATS_PER_RUN
           /\ fn_out.idx \in 1..(Len(fn_in.candidates) + 1)
           /\ fn_out.last \in 0..MaxAttempts
           /\ fn_out.requests <= MaxAttempts * (fn_out.idx - 1)
           /\ fn_out.requests <= MaxAttempts * MAX_CHATS_PER_RUN

\* C38: a run ends with a bounded quota: the candidate loop comes to its
\* end; a call of chat makes at most 5 requests, the loop visits at most
\* MAX_CHATS_PER_RUN candidates and never goes back, and the run makes at
\* most 5 requests for each candidate visited, 5 * MAX_CHATS_PER_RUN at
\* most.
C38_BoundedQuota ==
    /\ []QuotaBounded
    /\ <>(fn_out.f = "quota" /\ fn_out.idx > Len(fn_in.candidates))

\* a run that has used its whole quota: ten candidates, five requests each
C38_Witness ==
    /\ fn_out.f = "quota"
    /\ Len(chats) > MAX_CHATS_PER_RUN
    /\ fn_out.idx = MAX_CHATS_PER_RUN + 1
    /\ fn_out.requests = MaxAttempts * MAX_CHATS_PER_RUN

\* the message main sends on the path it has taken
MessageOfPath ==
    IF ending \in {"ValueError", "raised"} THEN "error"
    ELSE IF chats_to_analyze = <<>> THEN "nochats"
    ELSE IF results = <<>> THEN "noresults"
    ELSE "summary"

\* C39: a run calls telegram.send in exactly one of its steps, the step in
\* which it ends, on every path (missing credential, spreadsheet not
\* opened, no candidates, records written, no records, failed write), with
\* the message of that path; the summary is sent in the step that has
\* appended the results of the run, after the append.
C39_OneNotification ==
    [][/\ (pc # "done" /\ pc' = "done")
            => /\ delivered = "none"
               /\ delivered' \in {"True", "False"}
               /\ notified = NoMessage
               /\ notified'.kind = MessageOfPath'
       /\ (pc' # "done" /\ pc # "done")
            => (delivered' = "none" /\ notified' = NoMessage)
       /\ (pc = "done" /\ pc' = "done")
            => UNCHANGED <<delivered, notified>>
       /\ (pc # "done" /\ notified'.kind = "summary")
            => /\ results # <<>>
               /\ "write" \in store_ops'
               /\ table' = append_to_worksheet(table, results)
               /\ appended' = Len(results)]_vars

\* the summary of a run sent after its records were appended
C39_Witness ==
    /\ pc = "done"
    /\ notified.kind = "summary"
    /\ delivered = "True"
    /\ "write" \in store_ops
    /\ appended = Len(results)
    /\ appended >= 2
    /\ errors >= 1

\* the status of request k before and after a step
StatusOf(db, k) == db.requests[k].status

\* C40: in every step of the access-request workflow a request keeps its
\* status or goes from pending to approved or to rejected; a web user is
\* created only by the approval that takes a pending request to approved,
\* one user for it; an approve or reject call on a request that is not
\* pending (or not there) changes nothing and returns no user name.
C40_RequestWorkflow ==
    [][LET db == fn_out.db
           db2 == fn_out'.db
           last == fn_out'.last
       IN  /\ Len(db2.requests) >= Len(db.requests)
           /\ \A k \in 1..Len(db.requests) :
                 /\ db2.requests[k].telegram_username
                        = db.requests[k].telegram_username
                 /\ StatusOf(db2, k) # StatusOf(db, k)
                      => /\ StatusOf(db, k) = "pending"
                         /\ StatusOf(db2, k) \in {"approved", "rejected"}
                         /\ last.id = k
           /\ \A k \in (Len(db.requests) + 1)..Len(db2.requests) :
                 StatusOf(db2, k) = "pending"
           /\ db2.users # db.users
                => /\ last.op = "approve"
                   /\ last.id \in 1..Len(db.requests)
                   /\ StatusOf(db, last.id) = "pending"
                   /\ StatusOf(db2, last.id) = "approved"
                   /\ db2.users
                        = Append(db.users,
                                 db.requests[last.id].telegram_username)
           /\ Len(db2.users)
                = Cardinality({k \in 1..Len(db2.requests) :
                                  StatusOf(db2, k) = "approved"})
           /\ (/\ last.op \in {"approve", "reject"}
               /\ \/ last.id \notin 1..Len(db.requests)
                  \/ StatusOf(db, last.id) # "pending")
                => (db2 = db /\ last.returned = "None")]_vars

\* a second approval of a request already approved: no user name returned,
\* and still one user
C40_Witness ==
    /\ fn_out.f = "access"
    /\ fn_out.last.op = "approve"
    /\ fn_out.last.id = 1
    /\ fn_out.last.returned = "None"
    /\ Len(fn_out.db.requests) >= 2
    /\ fn_out.db.requests[1].status = "approved"
    /\ fn_out.db.requests[2].status = "rejected"
    /\ fn_out.db.users = <<fn_out.db.requests[1].telegram_username>>

====
